---------------------------- MODULE Spec2Model ----------------------------
(***************************************************************************)
(* AXM shard verifier (axm_verify) as a state machine.                     *)
(*                                                                         *)
(* The state is a shard directory on disk plus the position and locals of  *)
(* one verify_shard call.  The environment edits the shard (tables,        *)
(* manifest, keys, tree entries, symbolic links), may reseal it (recompute *)
(* the Merkle root and sign the manifest), and then verify_shard runs      *)
(* stage by stage.                                                         *)
(*                                                                         *)
(* Idealisations: SHA-256, BLAKE3 and base32 are collision-free, so a      *)
(* digest is represented by its tagged preimage; Ed25519 is unforgeable,   *)
(* so a signature is represented by the pair (signing key, signed bytes);  *)
(* a Parquet file's bytes are represented by the table they decode to.     *)
(* Strings are sequences of one-character symbols.                         *)
(***************************************************************************)
EXTENDS Integers, Sequences, FiniteSets, TLC

\* Number of edits the environment may apply to the gold shard before a run
\* (resealing and the choice of the trusted key are not counted).
MaxFaults == 1

(***************************************************************************)
(* axm_verify/identity.py                                                  *)
(***************************************************************************)

\* Symbols of the model's text alphabet: letters, ASCII space, TAB (both
\* whitespace and category Cc), SOH (Cc, not whitespace), NUL.
IsSpace(c) == c \in {" ", "TAB"}

IsCc(c) == c \in {"TAB", "SOH", "NUL"}

\* str.casefold on the alphabet ("A" is the only cased symbol that changes).
casefold(c) == IF c = "A" THEN "a" ELSE c

\* The value a raising call is represented by.
Raise == <<"raise">>

HasNul(text) == \E i \in 1..Len(text) : text[i] = "NUL"

\* t.split(): maximal runs of non-whitespace symbols, in order.
RECURSIVE SplitWs(_, _, _)
SplitWs(t, cur, parts) ==
    IF t = <<>>
    THEN IF cur = <<>> THEN parts ELSE Append(parts, cur)
    ELSE IF IsSpace(Head(t))
         THEN SplitWs(Tail(t), <<>>, IF cur = <<>> THEN parts ELSE Append(parts, cur))
         ELSE SplitWs(Tail(t), Append(cur, Head(t)), parts)

\* " ".join(parts)
RECURSIVE JoinSp(_)
JoinSp(parts) ==
    IF parts = <<>> THEN <<>>
    ELSE IF Len(parts) = 1 THEN parts[1]
    ELSE parts[1] \o <<" ">> \o JoinSp(Tail(parts))

NoCc(c) == ~IsCc(c)

NonEmpty(chunk) == chunk # <<>>

DropCc_keep(chunk) == chunk

DropCc(chunk) == SelectSeq(chunk, NoCc)

canonicalize(text) ==
    IF HasNul(text) THEN Raise
    ELSE LET t      == [i \in 1..Len(text) |-> casefold(text[i])]
             chunks == SplitWs(t, <<>>, <<>>)
             clean  == [i \in 1..Len(chunks) |-> DropCc(chunks[i])]
         IN  JoinSp(SelectSeq(clean, NonEmpty))

recompute_entity_id(namespace, label) ==
    IF HasNul(namespace) \/ HasNul(label) THEN Raise
    ELSE <<"e_">> \o canonicalize(namespace) \o <<"NUL">> \o canonicalize(label)

recompute_claim_id(subject, predicate, obj, object_type) ==
    IF HasNul(predicate) \/ (object_type # "entity" /\ HasNul(obj)) THEN Raise
    ELSE LET pred_canon == canonicalize(predicate)
             obj_value  == IF object_type = "entity" THEN obj ELSE canonicalize(obj)
         IN  <<"c_">> \o subject \o <<"NUL">> \o pred_canon \o <<"NUL">>
                 \o <<object_type>> \o <<"NUL">> \o obj_value


(***************************************************************************)
(* The shard directory.  A path is a sequence of names relative to the     *)
(* shard root; the tree maps every path of the universe to the kind of     *)
(* entry found there.                                                      *)
(***************************************************************************)

Root == <<>>

BasePaths ==
    { <<"manifest.json">>,
      <<"sig">>, <<"sig", "manifest.sig">>, <<"sig", "publisher.pub">>,
      <<"content">>, <<"content", "source.txt">>,
      <<"content", "sub">>, <<"content", "sub", "notes.txt">>,
      <<"graph">>, <<"graph", "entities.parquet">>, <<"graph", "claims.parquet">>,
      <<"graph", "provenance.parquet">>,
      <<"evidence">>, <<"evidence", "spans.parquet">> }

\* Places where the environment may create an entry the builder never writes.
ExtraPaths ==
    { <<"extra.txt">>, <<".extra">>,
      <<"sig", "extra.txt">>, <<"sig", ".extra">>,
      <<"content", "extra.txt">>, <<"content", ".extra">>,
      <<"content", "sub", ".extra">>,
      <<"graph", "extra.txt">>,
      <<"evidence", "extra.txt">> }

\* Places used by the Merkle vectors and by nested entries that share a
\* name with an entry excluded at the root.
MerklePaths ==
    { <<"a.txt">>, <<"b.txt">>, <<"graph", "manifest.json">>,
      <<"content", "sig">>, <<"content", "sig", "x">> }

AllPaths == {Root} \cup BasePaths \cup ExtraPaths \cup MerklePaths

Kinds == {"absent", "file", "dir", "symfile", "symdir"}

NameBytes(n) ==
    CASE n = "manifest.json" -> <<109, 97, 110, 105, 102, 101, 115, 116, 46, 106, 115, 111, 110>>
      [] n = "sig" -> <<115, 105, 103>>
      [] n = "manifest.sig" -> <<109, 97, 110, 105, 102, 101, 115, 116, 46, 115, 105, 103>>
      [] n = "publisher.pub" -> <<112, 117, 98, 108, 105, 115, 104, 101, 114, 46, 112, 117, 98>>
      [] n = "content" -> <<99, 111, 110, 116, 101, 110, 116>>
      [] n = "source.txt" -> <<115, 111, 117, 114, 99, 101, 46, 116, 120, 116>>
      [] n = "sub" -> <<115, 117, 98>>
      [] n = "notes.txt" -> <<110, 111, 116, 101, 115, 46, 116, 120, 116>>
      [] n = "graph" -> <<103, 114, 97, 112, 104>>
      [] n = "entities.parquet" -> <<101, 110, 116, 105, 116, 105, 101, 115, 46, 112, 97, 114, 113, 117, 101, 116>>
      [] n = "claims.parquet" -> <<99, 108, 97, 105, 109, 115, 46, 112, 97, 114, 113, 117, 101, 116>>
      [] n = "provenance.parquet" -> <<112, 114, 111, 118, 101, 110, 97, 110, 99, 101, 46, 112, 97, 114, 113, 117, 101, 116>>
      [] n = "evidence" -> <<101, 118, 105, 100, 101, 110, 99, 101>>
      [] n = "spans.parquet" -> <<115, 112, 97, 110, 115, 46, 112, 97, 114, 113, 117, 101, 116>>
      [] n = "extra.txt" -> <<101, 120, 116, 114, 97, 46, 116, 120, 116>>
      [] n = ".extra" -> <<46, 101, 120, 116, 114, 97>>
      [] n = "a.txt" -> <<97, 46, 116, 120, 116>>
      [] n = "b.txt" -> <<98, 46, 116, 120, 116>>
      [] n = "x" -> <<120>>

Parent(p) == SubSeq(p, 1, Len(p) - 1)

Basename(p) == p[Len(p)]

IsPrefix(a, b) == Len(a) <= Len(b) /\ SubSeq(b, 1, Len(a)) = a

\* path.relative_to(root).as_posix().encode("utf-8")
RECURSIVE RelBytes(_)
RelBytes(p) ==
    IF Len(p) = 0 THEN <<>>
    ELSE IF Len(p) = 1 THEN NameBytes(p[1])
    ELSE NameBytes(p[1]) \o <<47>> \o RelBytes(Tail(p))

StartsWith(s, pre) == Len(pre) <= Len(s) /\ SubSeq(s, 1, Len(pre)) = pre

\* name.startswith(".")
StartsWithDot(name) == StartsWith(NameBytes(name), <<46>>)

\* Every directory on the way to p can be traversed (symlinks followed).
Reachable(d, p) ==
    \A n \in 0..(Len(p) - 1) : d.tree[SubSeq(p, 1, n)] \in {"dir", "symdir"}

\* Path.exists(), Path.is_dir(), Path.is_file() follow symlinks;
\* Path.is_symlink() looks at the entry itself.
Exists(d, p) == Reachable(d, p) /\ d.tree[p] # "absent"

IsDir(d, p) == Reachable(d, p) /\ d.tree[p] \in {"dir", "symdir"}

IsFile(d, p) == Reachable(d, p) /\ d.tree[p] \in {"file", "symfile"}

IsSymlink(d, p) == Reachable(d, p) /\ d.tree[p] \in {"symfile", "symdir"}

\* Directories visited by os.walk(top, followlinks=False) once the caller has
\* pruned symlinked directories from dirnames: top itself (even when top is a
\* symlink to a directory) and every real directory below it.
Walked(d, top) ==
    IF ~IsDir(d, top) THEN {}
    ELSE { p \in AllPaths :
             /\ IsPrefix(top, p)
             /\ \A n \in (Len(top) + 1)..Len(p) : d.tree[SubSeq(p, 1, n)] = "dir" }

\* The filenames os.walk reports for a visited directory: every entry that is
\* not a directory, symlinks to files included.
Filenames(d, dir) ==
    { p \in AllPaths : p # Root /\ Parent(p) = dir /\ d.tree[p] \in {"file", "symfile"} }

WalkFiles(d, top) == UNION { Filenames(d, dir) : dir \in Walked(d, top) }

(***************************************************************************)
(* File contents.  disk.content maps the content files to byte sequences,  *)
(* disk.tables the four table files to their decoded form, disk.extraData  *)
(* the other files to byte sequences.  All files of the model are far      *)
(* below the size and count limits of logic.py and crypto.py.              *)
(***************************************************************************)

ContentPaths == { <<"content", "source.txt">>, <<"content", "sub", "notes.txt">> }

TableNames == {"entities", "claims", "provenance", "spans"}

TablePath(t) ==
    CASE t = "entities"   -> <<"graph", "entities.parquet">>
      [] t = "claims"     -> <<"graph", "claims.parquet">>
      [] t = "provenance" -> <<"graph", "provenance.parquet">>
      [] t = "spans"      -> <<"evidence", "spans.parquet">>

TableOf(p) == CHOOSE t \in TableNames : TablePath(t) = p

TablePaths == { TablePath(t) : t \in TableNames }

\* fp.read_bytes() of a file the Merkle walk hashes.
FileData(d, p) ==
    IF p \in ContentPaths THEN d.content[p]
    ELSE IF p \in TablePaths THEN d.tables[TableOf(p)]
    ELSE d.extraData[p]

(***************************************************************************)
(* axm_verify/crypto.py                                                    *)
(***************************************************************************)

Blake3(pre) == <<"blake3", pre>>

\* Lexicographic order of byte strings (Python's bytes comparison).
LessBytes(a, b) ==
    \E i \in 1..(Len(a) + 1) :
        /\ i <= Len(b)
        /\ \A j \in 1..(i - 1) : a[j] = b[j]
        /\ (i = Len(a) + 1 \/ a[i] < b[i])

\* files.sort(key=lambda x: x[0].encode("utf-8"))
RECURSIVE SortByRel(_)
SortByRel(S) ==
    IF S = {} THEN <<>>
    ELSE LET m == CHOOSE x \in S : \A y \in S \ {x} : LessBytes(RelBytes(x), RelBytes(y))
         IN  <<m>> \o SortByRel(S \ {m})

MerkleLevel_odd_promoted(leaves) ==
    [i \in 1..((Len(leaves) + 1) \div 2) |->
        IF 2 * i <= Len(leaves) THEN Blake3(<<leaves[2 * i - 1], leaves[2 * i]>>)
        ELSE leaves[2 * i - 1]]

\* One level of the fold: adjacent pairs, the last node paired with itself
\* when the level has odd length.
MerkleLevel(leaves) ==
    [i \in 1..((Len(leaves) + 1) \div 2) |->
        LET left  == leaves[2 * i - 1]
            right == IF 2 * i <= Len(leaves) THEN leaves[2 * i] ELSE left
        IN  Blake3(<<left, right>>)]

RECURSIVE MerkleFold(_)
MerkleFold(leaves) ==
    IF Len(leaves) = 0 THEN Blake3(<<>>)
    ELSE IF Len(leaves) = 1 THEN leaves[1]
    ELSE MerkleFold(MerkleLevel(leaves))

MerkleFiles_any_manifest(d) ==
    { p \in WalkFiles(d, Root) :
        /\ d.tree[p] = "file"
        /\ NameBytes(Basename(p)) # NameBytes("manifest.json")
        /\ ~StartsWith(RelBytes(p), NameBytes("sig") \o <<47>>) }

\* The files compute_merkle_root hashes: regular files found by the walk,
\* except the root manifest.json and everything below sig/.
MerkleFiles(d) ==
    { p \in WalkFiles(d, Root) :
        /\ d.tree[p] = "file"
        /\ RelBytes(p) # NameBytes("manifest.json")
        /\ ~StartsWith(RelBytes(p), NameBytes("sig") \o <<47>>) }

\* compute_merkle_root: raises on the first symlinked file the walk meets,
\* otherwise returns the root over the sorted leaves.
compute_merkle_root(d) ==
    IF \E p \in WalkFiles(d, Root) : d.tree[p] = "symfile"
    THEN [raised |-> TRUE, root |-> Blake3(<<>>)]
    ELSE LET files  == SortByRel(MerkleFiles(d))
             leaves == [i \in 1..Len(files) |->
                          Blake3(<<RelBytes(files[i]), <<0>>, FileData(d, files[i])>>)]
         IN  [raised |-> FALSE, root |-> MerkleFold(leaves)]

PUBKEY_LEN == 32

SIG_LEN == 64

Keys == {"K1", "K2"}

\* Ed25519 signature of msg under the secret key of public key k.
Sign(k, msg) == [len |-> SIG_LEN, key |-> k, msg |-> msg]

KeyLen(k) == IF k \in Keys THEN PUBKEY_LEN ELSE 31

SigPath == <<"sig", "manifest.sig">>

PubPath == <<"sig", "publisher.pub">>

ManifestPath == <<"manifest.json">>

\* The bytes of manifest.json are the JSON value they decode to (form, root)
\* in one of its encodings: "canonical" is what dumps_canonical_json emits,
\* the others decode to the same value from different bytes.
ManifestValue(manifest_bytes) == [form |-> manifest_bytes.form, root |-> manifest_bytes.root]

\* A check of the signature against the decoded value instead of the bytes.
verify_manifest_signature_of_value(d, manifest_bytes, pub) ==
    IF ~Exists(d, SigPath) THEN "false"
    ELSE IF ~IsFile(d, SigPath) THEN "raise"
    ELSE IF KeyLen(pub) # PUBKEY_LEN THEN "false"
    ELSE IF d.sig.len # SIG_LEN THEN "false"
    ELSE IF d.sig.key = pub /\ ManifestValue(d.sig.msg) = ManifestValue(manifest_bytes) THEN "true"
    ELSE "false"

\* verify_manifest_signature(manifest_bytes, root/"sig/manifest.sig", trusted_key_path):
\* "raise" when reading the signature path fails, else the boolean result.
verify_manifest_signature(d, manifest_bytes, pub) ==
    IF ~Exists(d, SigPath) THEN "false"
    ELSE IF ~IsFile(d, SigPath) THEN "raise"
    ELSE IF KeyLen(pub) # PUBKEY_LEN THEN "false"
    ELSE IF d.sig.len # SIG_LEN THEN "false"
    ELSE IF d.sig.key = pub /\ d.sig.msg = manifest_bytes THEN "true"
    ELSE "false"

(***************************************************************************)
(* axm_verify/const.py and the helpers of axm_verify/logic.py              *)
(***************************************************************************)

VALID_OBJECT_TYPES ==
    {"entity", "literal:string", "literal:integer", "literal:decimal", "literal:boolean"}

VALID_TIERS == {0, 1, 2, 3, 4}

REQUIRED_ROOT_ITEMS == {"manifest.json", "sig", "content", "graph", "evidence"}

REQUIRED_SIG_FILES == {"manifest.sig", "publisher.pub"}

REQUIRED_GRAPH_FILES == {"entities.parquet", "claims.parquet", "provenance.parquet"}

REQUIRED_EVIDENCE_FILES == {"spans.parquet"}

\* The eight stages of the verifier, in order.
Stages == <<"layout", "manifest", "crypto", "merkle", "schema", "identity", "refs", "spans">>

StageNo(s) == CHOOSE i \in 1..Len(Stages) : Stages[i] = s

\* _err: an error is its code; the stage that produced it stands for the
\* human-readable message.
_err(code, stage) == [code |-> code, stage |-> stage]

RECURSIVE Flatten(_)
Flatten(ss) == IF ss = <<>> THEN <<>> ELSE Head(ss) \o Flatten(Tail(ss))

Codes(errs) == { errs[i].code : i \in 1..Len(errs) }

ErrStages(errs) == { errs[i].stage : i \in 1..Len(errs) }

\* {p.name for p in root.iterdir()}
RootItems(d) == { Basename(p) : p \in { q \in AllPaths : Len(q) = 1 /\ d.tree[q] # "absent" } }

\* The regular files the dotfile scan looks at: symlinked directories are
\* pruned and symlinked files skipped.
ScannedFiles(d) == { p \in WalkFiles(d, Root) : d.tree[p] = "file" }

\* The errors _validate_root_layout appends (it returns True iff none).
_validate_root_layout(d) ==
    IF ~IsDir(d, Root) THEN << _err("E_LAYOUT_MISSING", "layout") >>
    ELSE LET items   == RootItems(d)
             missing == REQUIRED_ROOT_ITEMS \ items
             extra   == items \ REQUIRED_ROOT_ITEMS
         IN  IF missing # {} \/ extra # {}
             THEN (IF missing # {} THEN << _err("E_LAYOUT_MISSING", "layout") >> ELSE <<>>)
                  \o (IF extra # {} THEN << _err("E_LAYOUT_DIRTY", "layout") >> ELSE <<>>)
             ELSE IF \E p \in ScannedFiles(d) : StartsWithDot(Basename(p))
                  THEN << _err("E_DOTFILE", "layout") >>
                  ELSE <<>>

\* The text of integrity.merkle_root is either the hexdigest of a BLAKE3
\* value, <<"blake3", preimage>>, or a spelled-out string, <<"text", chars>>.
HexDigits ==
    {"0", "1", "2", "3", "4", "5", "6", "7", "8", "9",
     "a", "b", "c", "d", "e", "f", "A", "B", "C", "D", "E", "F"}

\* str.strip() as int() applies it: leading and trailing whitespace removed.
RECURSIVE LStrip(_)
LStrip(t) == IF t # <<>> /\ IsSpace(Head(t)) THEN LStrip(Tail(t)) ELSE t

RECURSIVE RStrip(_)
RStrip(t) == IF t # <<>> /\ IsSpace(t[Len(t)]) THEN RStrip(SubSeq(t, 1, Len(t) - 1)) ELSE t

\* Digits of base 16, single underscores allowed between digits only.
DigitsWithUnderscores(t) ==
    /\ t # <<>>
    /\ \A i \in 1..Len(t) : t[i] \in HexDigits \cup {"_"}
    /\ t[1] # "_" /\ t[Len(t)] # "_"
    /\ \A i \in 1..(Len(t) - 1) : ~(t[i] = "_" /\ t[i + 1] = "_")

\* int(s, 16) returns a value: whitespace stripped, an optional sign, an
\* optional 0x or 0X prefix (an underscore may follow it), then the digits.
IntBase16Parses(t) ==
    LET stripped == RStrip(LStrip(t))
        unsigned == IF stripped # <<>> /\ Head(stripped) \in {"+", "-"}
                    THEN Tail(stripped) ELSE stripped
    IN  IF Len(unsigned) >= 2 /\ unsigned[1] = "0" /\ unsigned[2] \in {"x", "X"}
        THEN LET rest == SubSeq(unsigned, 3, Len(unsigned))
             IN  DigitsWithUnderscores(IF rest # <<>> /\ Head(rest) = "_" THEN Tail(rest) ELSE rest)
        ELSE DigitsWithUnderscores(unsigned)

HEX_LEN == 64

\* _is_hex_64 on the manifest's integrity.merkle_root: a str of length 64
\* that int(s, 16) accepts.  A hexdigest is 64 characters of 0-9a-f.
_is_hex_64(m) ==
    IF m.root[1] = "blake3" THEN TRUE
    ELSE Len(m.root[2]) = HEX_LEN /\ IntBase16Parses(m.root[2])

\* _read_manifest: "raise" when json.loads yields a value without .get,
\* otherwise the errors it appends.
_read_manifest(m) ==
    IF m.form = "badjson" THEN [raised |-> FALSE, errs |-> << _err("E_MANIFEST_SYNTAX", "manifest") >>]
    ELSE IF m.form = "nonobject" THEN [raised |-> TRUE, errs |-> <<>>]
    ELSE IF ~_is_hex_64(m) THEN [raised |-> FALSE, errs |-> << _err("E_MANIFEST_SCHEMA", "manifest") >>]
    ELSE [raised |-> FALSE, errs |-> <<>>]

_validate_parquet_schema_nulls_first(d, t) ==
    LET path == TablePath(t)
        tab  == d.tables[t]
    IN  IF ~Exists(d, path) THEN << _err("E_SCHEMA_MISSING", "schema") >>
        ELSE IF ~IsFile(d, path) \/ tab.defects \cap {"size", "rows", "unreadable"} # {}
             THEN << _err("E_SCHEMA_READ", "schema") >>
        ELSE IF "nulls" \in tab.defects THEN << _err("E_SCHEMA_NULL", "schema") >>
        ELSE IF "schema" \in tab.defects THEN << _err("E_SCHEMA_TYPE", "schema") >>
        ELSE <<>>

\* _validate_parquet_schema: the errors it appends for one table file.  A
\* file over MAX_FILE_BYTES, metadata announcing more than MAX_PARQUET_ROWS
\* rows and a failing read all end in E_SCHEMA_READ.
_validate_parquet_schema(d, t) ==
    LET path == TablePath(t)
        tab  == d.tables[t]
    IN  IF ~Exists(d, path) THEN << _err("E_SCHEMA_MISSING", "schema") >>
        ELSE IF ~IsFile(d, path) \/ tab.defects \cap {"size", "rows", "unreadable"} # {}
             THEN << _err("E_SCHEMA_READ", "schema") >>
        ELSE IF "schema" \in tab.defects THEN << _err("E_SCHEMA_TYPE", "schema") >>
        ELSE IF "nulls" \in tab.defects THEN << _err("E_SCHEMA_NULL", "schema") >>
        ELSE <<>>

\* hashlib.sha256(...).hexdigest() of a content file.
_sha256_stream(bytes) == <<"sha256">> \o bytes

\* The one-byte (ASCII) symbols of the byte alphabet.
AsciiBytes ==
    { "a", "b", "x", "n", "LF", " ", "\"", "\\", "{", "}", "[", "]", ":", ",", "-",
      "0", "1", "2", "3", "4", "5", "6", "7", "8", "9" }

\* bytes.decode("utf-8") on the byte alphabet AsciiBytes, C3, A9: C3 A9 is
\* the two-byte encoding of U+00E9, a lone C3 or A9 is malformed.
RECURSIVE Utf8Valid(_)
Utf8Valid(b) ==
    IF b = <<>> THEN TRUE
    ELSE IF Head(b) \in AsciiBytes THEN Utf8Valid(Tail(b))
    ELSE IF Head(b) = "C3" /\ Len(b) >= 2 /\ b[2] = "A9" THEN Utf8Valid(SubSeq(b, 3, Len(b)))
    ELSE FALSE

RECURSIVE Utf8Decode(_)
Utf8Decode(b) ==
    IF b = <<>> THEN <<>>
    ELSE IF Head(b) \in AsciiBytes THEN <<Head(b)>> \o Utf8Decode(Tail(b))
    ELSE <<"U+00E9">> \o Utf8Decode(SubSeq(b, 3, Len(b)))

(***************************************************************************)
(* The gold shard: two entities, an entity-valued and a literal-valued     *)
(* claim, one provenance row and one span per claim, two content files.    *)
(***************************************************************************)

GoldNamespace == <<"a">>

SourceBytes == <<"a", "C3", "A9", "b">>

NotesBytes == <<"b">>

GoldEntity(label) ==
    [entity_id |-> recompute_entity_id(GoldNamespace, label), namespace |-> GoldNamespace,
     label |-> label, entity_type |-> "concept"]

GoldEntities == << GoldEntity(<<"a">>), GoldEntity(<<"b">>) >>

\* A claim row whose claim_id is derived from its other columns, as the
\* builder derives it (the row keeps the given id when derivation raises).
WithClaimId(row) ==
    LET calc == recompute_claim_id(row.subject, row.predicate, row.object, row.object_type)
    IN  IF calc = Raise THEN row ELSE [row EXCEPT !.claim_id = calc]

GoldClaims ==
    << WithClaimId([claim_id |-> <<"c_">>, subject |-> GoldEntities[1].entity_id,
                    predicate |-> <<"a">>, object |-> GoldEntities[2].entity_id,
                    object_type |-> "entity", tier |-> 0]),
       WithClaimId([claim_id |-> <<"c_">>, subject |-> GoldEntities[2].entity_id,
                    predicate |-> <<"b">>, object |-> <<"A", " ">>,
                    object_type |-> "literal:string", tier |-> 4]) >>

GoldProvenance ==
    << [provenance_id |-> <<"p1">>, claim_id |-> GoldClaims[1].claim_id,
        source_hash |-> _sha256_stream(SourceBytes), byte_start |-> 1, byte_end |-> 3],
       [provenance_id |-> <<"p2">>, claim_id |-> GoldClaims[2].claim_id,
        source_hash |-> _sha256_stream(NotesBytes), byte_start |-> 0, byte_end |-> 1] >>

GoldSpans ==
    << [span_id |-> <<"s1">>, source_hash |-> _sha256_stream(SourceBytes),
        byte_start |-> 1, byte_end |-> 3, text |-> <<"U+00E9">>],
       [span_id |-> <<"s2">>, source_hash |-> _sha256_stream(NotesBytes),
        byte_start |-> 0, byte_end |-> 1, text |-> <<"b">>] >>

Table(rows) == [defects |-> {}, rows |-> rows]

GoldTree ==
    [p \in AllPaths |->
        IF p \in ExtraPaths \cup MerklePaths THEN "absent"
        ELSE IF p \in {Root, <<"sig">>, <<"content">>, <<"content", "sub">>, <<"graph">>, <<"evidence">>}
             THEN "dir" ELSE "file"]

EmptyManifest == [form |-> "object", root |-> Blake3(<<>>), enc |-> "canonical"]

\* The shard before manifest.json and sig/ carry their final bytes.
Unsealed ==
    [tree      |-> GoldTree,
     manifest  |-> EmptyManifest,
     pub       |-> "K1",
     sig       |-> Sign("K1", EmptyManifest),
     tables    |-> [entities |-> Table(GoldEntities), claims |-> Table(GoldClaims),
                    provenance |-> Table(GoldProvenance), spans |-> Table(GoldSpans)],
     content   |-> [p \in ContentPaths |->
                       IF p = <<"content", "source.txt">> THEN SourceBytes ELSE NotesBytes],
     extraData |-> [p \in ExtraPaths \cup MerklePaths |-> <<"x">>]]

\* The last build steps, done by whoever holds the publisher key K1: the
\* Merkle root of the tree as it stands goes into the manifest, the manifest
\* is signed with K1, the public key is written next to it.
Sealed(d) ==
    LET m == [form |-> "object", root |-> compute_merkle_root(d).root, enc |-> "canonical"]
    IN  [d EXCEPT !.manifest = m, !.sig = Sign("K1", m), !.pub = "K1"]

GoldShard == Sealed(Unsealed)

(***************************************************************************)
(* State                                                                   *)
(***************************************************************************)
\* No compile_generic_shard call is under way.
NoBuild ==
    [pcb |-> "idle", source |-> <<>>, cands |-> <<>>, i |-> 0, entities |-> <<>>,
     claim_rows |-> <<>>, prov_rows |-> <<>>, span_rows |-> <<>>, files |-> <<>>,
     result |-> "none"]

\* No compute_merkle_root call has been made.
NoMerkle ==
    [pcm |-> "idle", impl |-> "none", files |-> <<>>, leaves |-> <<>>, nxt |-> <<>>,
     root |-> <<>>, at |-> <<>>, prev |-> <<>>, before |-> <<>>, touches |-> 0, oracle |-> {}]

\* dumps_canonical_json has not been called.
NoCanon == [pcj |-> "idle", obj |-> <<>>, bytes |-> <<>>, back |-> <<>>, again |-> <<>>]

\* The stream judge has not been started.
NoJudge ==
    [pcj |-> "idle", latents |-> [exists |-> FALSE, slots |-> <<>>],
     residuals |-> [exists |-> FALSE, recs |-> <<>>], jsonl |-> <<>>,
     residual_index |-> <<>>, events |-> <<>>, i |-> 0, rows |-> <<>>,
     streams |-> [exists |-> FALSE, rows |-> <<>>], exit |-> "none"]

\* Neither canonicalize nor normalize_source_text has been called.
NoCall == [pcc |-> "idle", arg |-> <<>>, out |-> <<>>, starts |-> <<>>, again |-> <<>>]

VARIABLES
    disk,            \* the shard directory
    faults,          \* number of edits applied to the gold shard
    pc,              \* "env" or the stage verify_shard is about to run, or "done"
    trusted,         \* the bytes of the trusted key file given to verify_shard
    errors,          \* verify_shard's errors list
    status,          \* "none" while running; "PASS", "FAIL", or "RAISED"
    ran,             \* the stages that have executed in this call
    entity_ids,      \* verify_shard's locals
    claim_ids,
    content_hashes,
    content_map,
    flipped,         \* a Merkle-covered file was changed after a PASS
    build,           \* inputs, position and locals of one compile_generic_shard call
    merkle,          \* position and locals of compute_merkle_root calls on a directory
    canon,           \* a mapping, its canonical JSON bytes, what they decode to
    call,            \* a call of canonicalize or normalize_source_text: argument, results
    judge            \* files, position and locals of one run of the stream judge

vars == <<disk, faults, pc, trusted, errors, status, ran, entity_ids, claim_ids,
          content_hashes, content_map, flipped, build, merkle, canon, call, judge>>

run == <<pc, trusted, errors, status, ran, entity_ids, claim_ids, content_hashes,
         content_map, flipped>>

locals == <<entity_ids, claim_ids, content_hashes, content_map>>

Init ==
    /\ disk = GoldShard
    /\ faults = 0
    /\ pc = "env"
    /\ trusted = "K1"
    /\ errors = <<>>
    /\ status = "none"
    /\ ran = {}
    /\ entity_ids = {}
    /\ claim_ids = {}
    /\ content_hashes = {}
    /\ content_map = <<>>
    /\ flipped = FALSE
    /\ build = NoBuild
    /\ merkle = NoMerkle
    /\ canon = NoCanon
    /\ call = NoCall
    /\ judge = NoJudge

(***************************************************************************)
(* The environment: whoever builds, publishes, stores or tampers with the  *)
(* shard before verify_shard is called.  Each edit changes one thing.      *)
(***************************************************************************)

Edit(d) ==
    /\ pc = "env"
    /\ faults < MaxFaults
    /\ d # disk
    /\ disk' = d
    /\ faults' = faults + 1
    /\ UNCHANGED run

SetRow(t, i, row) == [disk EXCEPT !.tables[t].rows[i] = row]

WrongEntityId == <<"e_", "b", "NUL", "a">>

\* <<row, new label>>: a label that canonicalizes like the first row's, and
\* one that holds a NUL.
LabelEdits == { <<1, <<"A", " ">> >>, <<2, <<"A", " ">> >>, <<2, <<"a", "NUL">> >> }

EditEntityId(i) ==
    Edit(SetRow("entities", i, [disk.tables.entities.rows[i] EXCEPT !.entity_id = WrongEntityId]))

EditEntityLabel(e) ==
    Edit(SetRow("entities", e[1], [disk.tables.entities.rows[e[1]] EXCEPT !.label = e[2]]))

WrongClaimId == <<"c_", "b">>

\* <<row, column, new value>>
ClaimFieldEdits ==
    { <<1, "subject", WrongEntityId>>, <<2, "subject", WrongEntityId>>,
      <<1, "object", WrongEntityId>>, <<2, "object", <<"a", "NUL">> >>,
      <<1, "object_type", "literal:bogus">>, <<2, "tier", 5>>,
      <<1, "predicate", <<"b", "NUL">> >> }

EditClaimId(i) ==
    Edit(SetRow("claims", i, [disk.tables.claims.rows[i] EXCEPT !.claim_id = WrongClaimId]))

\* A claim built with a different column value; its claim_id is derived
\* from the new columns.
EditClaimField(e) ==
    Edit(SetRow("claims", e[1], WithClaimId([disk.tables.claims.rows[e[1]] EXCEPT ![e[2]] = e[3]])))

UnknownHash == <<"sha256", "b", "b">>

ProvFieldEdits ==
    { <<1, "claim_id", WrongClaimId>>, <<2, "source_hash", UnknownHash>>,
      <<1, "byte_start", -1>>, <<2, "byte_start", 4>>, <<1, "byte_end", 5>> }

EditProvenance(e) ==
    Edit(SetRow("provenance", e[1], [disk.tables.provenance.rows[e[1]] EXCEPT ![e[2]] = e[3]]))

SpanFieldEdits ==
    { <<1, "source_hash", UnknownHash>>, <<2, "byte_start", -1>>, <<1, "byte_start", 2>>,
      <<2, "byte_end", 5>>, <<1, "text", <<"a">> >>, <<2, "text", <<"a">> >> }

EditSpan(e) ==
    Edit(SetRow("spans", e[1], [disk.tables.spans.rows[e[1]] EXCEPT ![e[2]] = e[3]]))

\* <<table, defect>>
TableDefects ==
    { <<"entities", "unreadable">>, <<"claims", "nulls">>, <<"provenance", "schema">>,
      <<"spans", "nulls">> }

AddDefect(e) ==
    Edit([disk EXCEPT !.tables[e[1]].defects = @ \cup {e[2]}])

\* One byte of a content file or of an extra file replaced.
FlippedBytes(b) == [b EXCEPT ![1] = IF @ = "a" THEN "b" ELSE "a"]

\* The kinds of entry the environment may create at an extra path.
ExtraKinds(p) ==
    IF p \in { <<"sig", "extra.txt">>, <<"content", "extra.txt">>, <<"content", ".extra">> }
    THEN {"file", "symfile", "symdir"}
    ELSE IF p = <<"graph", "extra.txt">> THEN {"file", "symdir"}
    ELSE {"file"}

AddEntry(p, k) ==
    /\ disk.tree[p] = "absent"
    /\ Edit([disk EXCEPT !.tree[p] = k])

Removable ==
    { Root, ManifestPath, SigPath, PubPath, <<"graph", "entities.parquet">>,
      <<"evidence", "spans.parquet">> }

RemoveEntry(p) == Edit([disk EXCEPT !.tree[p] = "absent"])

Linkable ==
    { ManifestPath, <<"sig">>, PubPath, <<"content">>, <<"content", "source.txt">>,
      <<"content", "sub">>, <<"graph">>, <<"graph", "claims.parquet">>, <<"evidence">> }

\* The entry becomes a symbolic link to a file or directory with the same
\* contents.
ReplaceWithSymlink(p) ==
    /\ disk.tree[p] \in {"file", "dir"}
    /\ Edit([disk EXCEPT !.tree[p] = IF @ = "file" THEN "symfile" ELSE "symdir"])

ReplaceWithDir(p) ==
    /\ disk.tree[p] = "file"
    /\ Edit([disk EXCEPT !.tree[p] = "dir"])

\* n times the digit a.
Fill(n) == [i \in 1..n |-> "a"]

\* Spelled-out values of integrity.merkle_root: 63 and 65 hex digits, 64
\* characters with an uppercase digit, a 0x prefix, a sign, an underscore,
\* surrounding whitespace, a letter that is no hex digit.
RootTexts ==
    { Fill(63), Fill(65), <<"A">> \o Fill(63), <<"0", "x">> \o Fill(62),
      <<"+">> \o Fill(63), <<"a", "_">> \o Fill(62), <<" ">> \o Fill(62) \o <<" ">>,
      <<"g">> \o Fill(63) }

ManifestEdits ==
    { <<"form", "nonobject">>, <<"form", "badjson">>, <<"root", Blake3(<<>>)>> }
        \cup { <<"root", <<"text", t>> >> : t \in RootTexts }

EditManifest(e) == Edit([disk EXCEPT !.manifest[e[1]] = e[2]])

EditPublisherKey == Edit([disk EXCEPT !.pub = "K2"])

\* A signature of the on-disk manifest under K2, or a 63-byte file.
SigEdits == { Sign("K2", disk.manifest), [Sign("K1", disk.manifest) EXCEPT !.len = 63] }

EditSignature(sg) == Edit([disk EXCEPT !.sig = sg])

EditContent(p) == Edit([disk EXCEPT !.content[p] = FlippedBytes(@)])

Editable == { <<"content", "source.txt">> }

\* The publisher (re)computes the Merkle root, rewrites and signs the manifest.
Seal ==
    /\ pc = "env"
    /\ \A p \in {ManifestPath, PubPath, SigPath} : IsFile(disk, p)
    /\ ~compute_merkle_root(disk).raised
    /\ Sealed(disk) # disk
    /\ disk' = Sealed(disk)
    /\ UNCHANGED <<faults, run>>

(***************************************************************************)
(* axm_verify/logic.py: verify_shard, one action per stage                 *)
(***************************************************************************)

\* The caller supplies the trusted key file: the publisher's key K1 or
\* another key.
StartVerify(k) ==
    /\ pc = "env"
    /\ pc' = "layout"
    /\ trusted' = k
    /\ UNCHANGED <<disk, faults, errors, status, ran, locals, flipped>>

\* return {"status": "FAIL" if errors else "PASS", ..., "errors": errors}
Return(errs) ==
    /\ errors' = errs
    /\ status' = IF errs = <<>> THEN "PASS" ELSE "FAIL"
    /\ pc' = "done"

\* An exception leaves verify_shard: no report is returned.
Propagate ==
    /\ status' = "RAISED"
    /\ pc' = "done"
    /\ UNCHANGED errors

\* The stage reported nothing, the next one runs.
Continue(next) ==
    /\ pc' = next
    /\ UNCHANGED <<errors, status>>

When(cond, code, stage) == IF cond THEN << _err(code, stage) >> ELSE <<>>

\* 1) Layout
VerifyLayout ==
    /\ pc = "layout"
    /\ ran' = ran \cup {"layout"}
    /\ LET errs == _validate_root_layout(disk)
       IN  IF errs # <<>> THEN Return(errors \o errs) ELSE Continue("manifest")
    /\ UNCHANGED <<disk, faults, trusted, locals, flipped>>

\* 2) Manifest: read the bytes once, then _read_manifest.
VerifyManifest ==
    /\ pc = "manifest"
    /\ ran' = ran \cup {"manifest"}
    /\ IF ~IsFile(disk, ManifestPath)
       THEN Return(errors \o << _err("E_MANIFEST_SCHEMA", "manifest") >>)
       ELSE LET r == _read_manifest(disk.manifest)
            IN  IF r.raised THEN Propagate
                ELSE IF errors \o r.errs # <<>> THEN Return(errors \o r.errs)
                ELSE Continue("crypto")
    /\ UNCHANGED <<disk, faults, trusted, locals, flipped>>

\* A crypto stage that checks only that sig/publisher.pub can be read.
shard_pub_mismatch_unreadable_only(d, trusted_pub) == ~IsFile(d, PubPath)

\* sig/publisher.pub cannot be read, or its bytes differ from the trusted key.
shard_pub_mismatch(d, trusted_pub) == ~IsFile(d, PubPath) \/ d.pub # trusted_pub

\* 3) Crypto (trusted anchor)
VerifyCrypto ==
    /\ pc = "crypto"
    /\ ran' = ran \cup {"crypto"}
    /\ IF shard_pub_mismatch(disk, trusted)
       THEN Return(errors \o << _err("E_SIG_INVALID", "crypto") >>)
       ELSE LET manifest_ok == verify_manifest_signature(disk, disk.manifest, trusted)
            IN  IF manifest_ok = "raise" THEN Propagate
                ELSE IF manifest_ok = "false"
                     THEN Return(errors \o << _err("E_SIG_INVALID", "crypto") >>)
                     ELSE Continue("merkle")
    /\ UNCHANGED <<disk, faults, trusted, locals, flipped>>

\* Merkle root against manifest.integrity.merkle_root
VerifyMerkle ==
    /\ pc = "merkle"
    /\ ran' = ran \cup {"merkle"}
    /\ LET computed == compute_merkle_root(disk)
           stored   == disk.manifest.root
       IN  IF computed.raised
           THEN Return(errors \o << _err("E_LAYOUT_DIRTY", "merkle") >>)
           ELSE IF computed.root # stored
                THEN Return(errors \o << _err("E_MERKLE_MISMATCH", "merkle") >>)
                ELSE Continue("schema")
    /\ UNCHANGED <<disk, faults, trusted, locals, flipped>>

\* A schema stage that records its errors and lets the row checks run.
VerifySchema_no_return ==
    /\ pc = "schema"
    /\ ran' = ran \cup {"schema"}
    /\ errors' = errors
          \o _validate_parquet_schema(disk, "entities")
          \o _validate_parquet_schema(disk, "claims")
          \o _validate_parquet_schema(disk, "provenance")
          \o _validate_parquet_schema(disk, "spans")
    /\ pc' = "ids"
    /\ UNCHANGED <<status, disk, faults, trusted, locals, flipped>>

\* 4) Schema: the four tables, errors accumulated.
VerifySchema ==
    /\ pc = "schema"
    /\ ran' = ran \cup {"schema"}
    /\ LET errs == _validate_parquet_schema(disk, "entities")
                   \o _validate_parquet_schema(disk, "claims")
                   \o _validate_parquet_schema(disk, "provenance")
                   \o _validate_parquet_schema(disk, "spans")
       IN  IF errors \o errs # <<>> THEN Return(errors \o errs) ELSE Continue("ids")
    /\ UNCHANGED <<disk, faults, trusted, locals, flipped>>

EntityRowErrors(row) ==
    When(recompute_entity_id(row.namespace, row.label) # row.entity_id, "E_ID_ENTITY", "identity")

\* A claims loop without the tier check.
ClaimRowErrors_no_tier(row, ids) ==
    When(row.object_type \notin VALID_OBJECT_TYPES, "E_SCHEMA_ENUM", "identity")
    \o When(recompute_claim_id(row.subject, row.predicate, row.object, row.object_type)
               # row.claim_id, "E_ID_CLAIM", "identity")
    \o When(row.subject \notin ids, "E_REF_ORPHAN", "refs")
    \o When(row.object_type = "entity" /\ row.object \notin ids, "E_REF_ORPHAN", "refs")

ClaimRowErrors(row, ids) ==
    When(row.object_type \notin VALID_OBJECT_TYPES, "E_SCHEMA_ENUM", "identity")
    \o When(row.tier \notin VALID_TIERS, "E_SCHEMA_ENUM", "identity")
    \o When(recompute_claim_id(row.subject, row.predicate, row.object, row.object_type)
               # row.claim_id, "E_ID_CLAIM", "identity")
    \o When(row.subject \notin ids, "E_REF_ORPHAN", "refs")
    \o When(row.object_type = "entity" /\ row.object \notin ids, "E_REF_ORPHAN", "refs")

\* 5) IDs and references: the entities loop, then the claims loop.  A NUL in
\* a canonicalized column makes canonicalize raise out of verify_shard.
VerifyIds ==
    /\ pc = "ids"
    /\ ran' = ran \cup {"identity", "refs"}
    /\ LET entities == disk.tables.entities.rows
           claims   == disk.tables.claims.rows
           ids      == { entities[i].entity_id : i \in 1..Len(entities) }
           raises   == \/ \E i \in 1..Len(entities) :
                              recompute_entity_id(entities[i].namespace, entities[i].label) = Raise
                       \/ \E i \in 1..Len(claims) :
                              recompute_claim_id(claims[i].subject, claims[i].predicate,
                                                 claims[i].object, claims[i].object_type) = Raise
       IN  IF raises
           THEN Propagate /\ UNCHANGED <<entity_ids, claim_ids>>
           ELSE /\ entity_ids' = ids
                /\ claim_ids' = { claims[i].claim_id : i \in 1..Len(claims) }
                /\ errors' = errors
                      \o Flatten([i \in 1..Len(entities) |-> EntityRowErrors(entities[i])])
                      \o Flatten([i \in 1..Len(claims) |-> ClaimRowErrors(claims[i], ids)])
                /\ pc' = "content"
                /\ UNCHANGED status
    /\ UNCHANGED <<disk, faults, trusted, content_hashes, content_map, flipped>>

\* 6) Content hashes: walk content/, hash every regular file; a symlinked
\* file is reported and skipped, a symlinked directory is pruned.
ScanContent ==
    /\ pc = "content"
    /\ ran' = ran \cup {"refs"}
    /\ LET files  == WalkFiles(disk, <<"content">>)
           links  == { p \in files : disk.tree[p] = "symfile" }
           hashed == { p \in files : disk.tree[p] = "file" }
           hashes == { _sha256_stream(FileData(disk, p)) : p \in hashed }
       IN  /\ content_hashes' = hashes
           /\ content_map' = [h \in hashes |->
                                 CHOOSE p \in hashed : _sha256_stream(FileData(disk, p)) = h]
           /\ errors' = errors \o [i \in 1..Cardinality(links) |-> _err("E_REF_READ", "refs")]
    /\ pc' = "prov"
    /\ UNCHANGED <<disk, faults, trusted, status, entity_ids, claim_ids, flipped>>

\* p.stat().st_size of the content file recorded for a hash.
FileSize(h) == Len(FileData(disk, content_map[h]))

\* A bounds check that accepts byte_end < byte_start.
OutOfBounds_no_order(row) ==
    \/ row.byte_start < 0
    \/ row.byte_end > FileSize(row.source_hash)

OutOfBounds(row) ==
    \/ row.byte_start < 0
    \/ row.byte_end < row.byte_start
    \/ row.byte_end > FileSize(row.source_hash)

\* A provenance loop without the claim_id lookup.
ProvenanceRowErrors_no_claim_check(row) ==
    IF row.source_hash \notin content_hashes
    THEN << _err("E_REF_SOURCE", "refs") >>
    ELSE When(OutOfBounds(row), "E_REF_SOURCE", "spans")

ProvenanceRowErrors(row) ==
    When(row.claim_id \notin claim_ids, "E_REF_ORPHAN", "refs")
    \o IF row.source_hash \notin content_hashes
       THEN << _err("E_REF_SOURCE", "refs") >>
       ELSE When(OutOfBounds(row), "E_REF_SOURCE", "spans")

\* The provenance loop.
VerifyProvenance ==
    /\ pc = "prov"
    /\ ran' = ran \cup {"refs", "spans"}
    /\ LET prov == disk.tables.provenance.rows
       IN  errors' = errors \o Flatten([i \in 1..Len(prov) |-> ProvenanceRowErrors(prov[i])])
    /\ pc' = "spans"
    /\ UNCHANGED <<disk, faults, trusted, status, locals, flipped>>

\* f.seek(bs); f.read(be - bs)
SliceBytes(row) ==
    LET data == FileData(disk, content_map[row.source_hash])
    IN  SubSeq(data, row.byte_start + 1, IF row.byte_end < Len(data) THEN row.byte_end ELSE Len(data))

SpanRowErrors(row) ==
    IF row.source_hash \notin content_hashes THEN << _err("E_REF_SOURCE", "refs") >>
    ELSE IF OutOfBounds(row) THEN << _err("E_REF_SOURCE", "spans") >>
    ELSE IF ~Utf8Valid(SliceBytes(row)) THEN << _err("E_REF_SOURCE", "spans") >>
    ELSE When(Utf8Decode(SliceBytes(row)) # row.text, "E_REF_SOURCE", "spans")

\* The spans loop and the final report.
VerifySpans ==
    /\ pc = "spans"
    /\ ran' = ran \cup {"refs", "spans"}
    /\ LET spans == disk.tables.spans.rows
       IN  Return(errors \o Flatten([i \in 1..Len(spans) |-> SpanRowErrors(spans[i])]))
    /\ UNCHANGED <<disk, faults, trusted, locals, flipped>>

\* The regular files under content/, graph/ and evidence/.
CoveredFiles(d) ==
    { p \in TablePaths \cup ContentPaths \cup ExtraPaths :
        /\ Len(p) >= 2
        /\ p[1] \in {"content", "graph", "evidence"}
        /\ Reachable(d, p)
        /\ d.tree[p] = "file" }

\* After a PASS somebody changes the bytes of one file under content/,
\* graph/ or evidence/, leaving manifest.json and sig/ alone, and
\* verify_shard is called again with the same trusted key.
FlipVariants(p) ==
    IF p \in TablePaths
    THEN { [disk EXCEPT !.tables[TableOf(p)].defects = @ \cup {"unreadable"}],
           [disk EXCEPT !.tables[TableOf(p)].rows = Tail(@)] }
    ELSE IF p \in ContentPaths THEN { [disk EXCEPT !.content[p] = FlippedBytes(@)] }
    ELSE { [disk EXCEPT !.extraData[p] = FlippedBytes(@)] }

FlipCoveredFile(p, d) ==
    /\ pc = "done"
    /\ status = "PASS"
    /\ ~flipped
    /\ p \in CoveredFiles(disk)
    /\ d \in FlipVariants(p)
    /\ disk' = d
    /\ flipped' = TRUE
    /\ pc' = "layout"
    /\ errors' = <<>>
    /\ status' = "none"
    /\ ran' = {}
    /\ entity_ids' = {}
    /\ claim_ids' = {}
    /\ content_hashes' = {}
    /\ content_map' = <<>>
    /\ UNCHANGED <<faults, trusted>>

Next ==
    /\ UNCHANGED <<build, merkle, canon, call, judge>>
    /\ \/ \E i \in 1..2 : EditEntityId(i)
       \/ \E e \in LabelEdits : EditEntityLabel(e)
       \/ \E i \in 1..2 : EditClaimId(i)
       \/ \E e \in ClaimFieldEdits : EditClaimField(e)
       \/ \E e \in ProvFieldEdits : EditProvenance(e)
       \/ \E e \in SpanFieldEdits : EditSpan(e)
       \/ \E e \in TableDefects : AddDefect(e)
       \/ \E p \in ExtraPaths : \E k \in ExtraKinds(p) : AddEntry(p, k)
       \/ \E p \in Removable : RemoveEntry(p)
       \/ \E p \in Linkable : ReplaceWithSymlink(p)
       \/ \E p \in {ManifestPath, SigPath} : ReplaceWithDir(p)
       \/ \E e \in ManifestEdits : EditManifest(e)
       \/ EditPublisherKey
       \/ \E sg \in SigEdits : EditSignature(sg)
       \/ \E p \in Editable : EditContent(p)
       \/ Seal
       \/ \E k \in Keys : StartVerify(k)
       \/ VerifyLayout
       \/ VerifyManifest
       \/ VerifyCrypto
       \/ VerifyMerkle
       \/ VerifySchema
       \/ VerifyIds
       \/ ScanContent
       \/ VerifyProvenance
       \/ VerifySpans
       \/ \E p \in TablePaths \cup ContentPaths \cup ExtraPaths :
             \E d \in FlipVariants(p) : FlipCoveredFile(p, d)

Spec == Init /\ [][Next]_vars

(***************************************************************************)
(* axm_build/compiler_generic.py: compile_generic_shard.  The source text   *)
(* is taken after normalize_source_text; a candidate is one parsed line of  *)
(* candidates.jsonl.                                                        *)
(***************************************************************************)

\* str.encode("utf-8") on the text alphabet AsciiBytes, U+00E9.
RECURSIVE Utf8Encode(_)
Utf8Encode(text) ==
    IF text = <<>> THEN <<>>
    ELSE (IF Head(text) = "U+00E9" THEN <<"C3", "A9">> ELSE <<Head(text)>>)
             \o Utf8Encode(Tail(text))

\* needle occurs in hay at byte offset i (0-based).
OccursAt(hay, needle, i) ==
    i + Len(needle) <= Len(hay) /\ SubSeq(hay, i + 1, i + Len(needle)) = needle

\* bytes.count(needle) for a non-empty needle: occurrences found scanning
\* from the left, the scan resuming after the end of each occurrence.
RECURSIVE CountFrom(_, _, _)
CountFrom(hay, needle, i) ==
    IF i + Len(needle) > Len(hay) THEN 0
    ELSE IF OccursAt(hay, needle, i) THEN 1 + CountFrom(hay, needle, i + Len(needle))
    ELSE CountFrom(hay, needle, i + 1)

\* bytes.find(needle) when needle occurs: the lowest offset.
Find(hay, needle) ==
    CHOOSE i \in 0..Len(hay) :
        OccursAt(hay, needle, i) /\ \A j \in 0..(i - 1) : ~OccursAt(hay, needle, j)

\* _find_span_strict: the span, or the ValueError it raises.
_find_span_strict(content_bytes, needle) ==
    LET needle_bytes == Utf8Encode(needle)
        count        == CountFrom(content_bytes, needle_bytes, 0)
    IN  IF count = 0 THEN [kind |-> "not found", start |-> 0, end |-> 0]
        ELSE IF count > 1 THEN [kind |-> "ambiguous", start |-> 0, end |-> 0]
        ELSE LET idx == Find(content_bytes, needle_bytes)
             IN  [kind |-> "span", start |-> idx, end |-> idx + Len(needle_bytes)]

\* str.strip()
Strip(t) == RStrip(LStrip(t))

\* int(c.get("tier", 0)) with the except branch: a tier is <<"missing", 0>>,
\* an integer <<"int", n>>, a string spelling an integer <<"str", n>>, or a
\* value int() rejects, <<"junk", 0>>.
CoerceTier(t) == IF t[1] \in {"int", "str"} THEN t[2] ELSE 0

\* Lines 146-151: the tier written into the claim row.
RowTier(t) == IF CoerceTier(t) \notin VALID_TIERS THEN 0 ELSE CoerceTier(t)

\* str(n) for a one-digit n.
Decimal(n) == <<"0", "1", "2", "3", "4", "5", "6", "7", "8", "9">>[n + 1]

\* _b32_id(prefix, data)
_b32_id(prefix, data) == <<prefix>> \o <<"sha256">> \o data

\* The entities dict: labels in insertion order with their ids;
\* entities[label] = id keeps the position of a label already present.
DictGet(dct, k) ==
    IF \E i \in 1..Len(dct) : dct[i].label = k
    THEN (dct[CHOOSE i \in 1..Len(dct) : dct[i].label = k]).id
    ELSE <<>>

DictSet(dct, k, v) ==
    IF \E i \in 1..Len(dct) : dct[i].label = k
    THEN [i \in 1..Len(dct) |-> IF dct[i].label = k THEN [label |-> k, id |-> v] ELSE dct[i]]
    ELSE Append(dct, [label |-> k, id |-> v])

\* Pass 1 (lines 103-114): the entities dict after the candidates, or the
\* ValueError canonicalize raises on a NUL.  object_type is the value of
\* c.get("object_type", "entity").
RECURSIVE Pass1(_, _, _)
Pass1(cands, namespace, entities) ==
    IF cands = <<>> THEN [raised |-> FALSE, entities |-> entities]
    ELSE LET c    == Head(cands)
             subj == Strip(c.subject)
             obj  == Strip(c.object)
         IN  IF subj = <<>> THEN Pass1(Tail(cands), namespace, entities)
             ELSE IF recompute_entity_id(namespace, subj) = Raise
                  THEN [raised |-> TRUE, entities |-> entities]
             ELSE LET with_subj == DictSet(entities, subj, recompute_entity_id(namespace, subj))
                  IN  IF c.object_type = "entity" /\ obj # <<>>
                      THEN IF recompute_entity_id(namespace, obj) = Raise
                           THEN [raised |-> TRUE, entities |-> with_subj]
                           ELSE Pass1(Tail(cands), namespace,
                                      DictSet(with_subj, obj, recompute_entity_id(namespace, obj)))
                      ELSE Pass1(Tail(cands), namespace, with_subj)

\* entities.get(label) or recompute_entity_id(namespace, label)
EntityIdFor(entities, namespace, label) ==
    IF DictGet(entities, label) # <<>> THEN DictGet(entities, label)
    ELSE recompute_entity_id(namespace, label)

NoRows == [claim |-> <<>>, prov |-> <<>>, span |-> <<>>]

\* A pass 2 that lets "Evidence not found" leave the loop, like any other
\* ValueError of _find_span_strict.
Pass2Step_not_found_raises(c, entities, namespace, content_bytes) ==
    LET subj_label  == Strip(c.subject)
        pred        == Strip(c.predicate)
        obj         == Strip(c.object)
        subj_id     == EntityIdFor(entities, namespace, subj_label)
        obj_val     == IF c.object_type = "entity"
                       THEN EntityIdFor(entities, namespace, obj) ELSE obj
        found       == _find_span_strict(content_bytes, c.evidence)
        source_hash == _sha256_stream(content_bytes)
        cid         == recompute_claim_id(subj_id, pred, obj_val, c.object_type)
        where       == source_hash \o <<"NUL", Decimal(found.start), "NUL", Decimal(found.end)>>
    IN  IF subj_label = <<>> \/ pred = <<>> \/ c.evidence = <<>> THEN [kind |-> "skip", rows |-> NoRows]
        ELSE IF c.object_type \notin VALID_OBJECT_TYPES THEN [kind |-> "skip", rows |-> NoRows]
        ELSE IF subj_id = Raise \/ obj_val = Raise THEN [kind |-> "raise", rows |-> NoRows]
        ELSE IF found.kind # "span" THEN [kind |-> "raise", rows |-> NoRows]
        ELSE IF cid = Raise THEN [kind |-> "raise", rows |-> NoRows]
        ELSE [kind |-> "rows",
              rows |-> [claim |-> << [claim_id |-> cid, subject |-> subj_id, predicate |-> pred,
                                      object |-> obj_val, object_type |-> c.object_type,
                                      tier |-> RowTier(c.tier)] >>,
                        prov  |-> << [provenance_id |-> _b32_id("p_", where), claim_id |-> cid,
                                      source_hash |-> source_hash,
                                      byte_start |-> found.start, byte_end |-> found.end] >>,
                        span  |-> << [span_id |-> _b32_id("s_", where \o <<"NUL">> \o c.evidence),
                                      source_hash |-> source_hash,
                                      byte_start |-> found.start, byte_end |-> found.end,
                                      text |-> c.evidence] >>]]

\* One iteration of pass 2 (lines 131-202): "skip" for continue, "raise"
\* for an exception leaving the loop, "rows" with the three rows appended.
Pass2Step(c, entities, namespace, content_bytes) ==
    LET subj_label  == Strip(c.subject)
        pred        == Strip(c.predicate)
        obj         == Strip(c.object)
        subj_id     == EntityIdFor(entities, namespace, subj_label)
        obj_val     == IF c.object_type = "entity"
                       THEN EntityIdFor(entities, namespace, obj) ELSE obj
        found       == _find_span_strict(content_bytes, c.evidence)
        source_hash == _sha256_stream(content_bytes)
        cid         == recompute_claim_id(subj_id, pred, obj_val, c.object_type)
        where       == source_hash \o <<"NUL", Decimal(found.start), "NUL", Decimal(found.end)>>
    IN  IF subj_label = <<>> \/ pred = <<>> \/ c.evidence = <<>> THEN [kind |-> "skip", rows |-> NoRows]
        ELSE IF c.object_type \notin VALID_OBJECT_TYPES THEN [kind |-> "skip", rows |-> NoRows]
        ELSE IF subj_id = Raise \/ obj_val = Raise THEN [kind |-> "raise", rows |-> NoRows]
        ELSE IF found.kind = "not found" THEN [kind |-> "skip", rows |-> NoRows]
        ELSE IF found.kind = "ambiguous" THEN [kind |-> "raise", rows |-> NoRows]
        ELSE IF cid = Raise THEN [kind |-> "raise", rows |-> NoRows]
        ELSE [kind |-> "rows",
              rows |-> [claim |-> << [claim_id |-> cid, subject |-> subj_id, predicate |-> pred,
                                      object |-> obj_val, object_type |-> c.object_type,
                                      tier |-> RowTier(c.tier)] >>,
                        prov  |-> << [provenance_id |-> _b32_id("p_", where), claim_id |-> cid,
                                      source_hash |-> source_hash,
                                      byte_start |-> found.start, byte_end |-> found.end] >>,
                        span  |-> << [span_id |-> _b32_id("s_", where \o <<"NUL">> \o c.evidence),
                                      source_hash |-> source_hash,
                                      byte_start |-> found.start, byte_end |-> found.end,
                                      text |-> c.evidence] >>]]

\* A total order on ids standing for the order of their base32 strings:
\* lexicographic on the position of each symbol in this list.
IdSymbols ==
    << "NUL", "SOH", "TAB", "LF", " ", "0", "1", "2", "3", "4", "5", "6", "7", "8", "9",
       "A", "A9", "C3", "U+00E9", "a", "b", "c_", "e_", "entity", "literal:boolean",
       "literal:decimal", "literal:integer", "literal:string", "p_", "s_", "sha256" >>

IdKey(id) == [i \in 1..Len(id) |-> CHOOSE n \in 1..Len(IdSymbols) : IdSymbols[n] = id[i]]

\* sorted(rows, key=lambda r: r[sort_key]): stable, rows with equal keys
\* keep their order.
RECURSIVE InsertRow(_, _, _)
InsertRow(sorted, row, sort_key) ==
    IF sorted = <<>> THEN <<row>>
    ELSE IF LessBytes(IdKey(row[sort_key]), IdKey(Head(sorted)[sort_key]))
         THEN <<row>> \o sorted
         ELSE <<Head(sorted)>> \o InsertRow(Tail(sorted), row, sort_key)

RECURSIVE SortRows(_, _)
SortRows(rows, sort_key) ==
    IF rows = <<>> THEN <<>>
    ELSE InsertRow(SortRows(SubSeq(rows, 1, Len(rows) - 1), sort_key), rows[Len(rows)], sort_key)

\* write_parquet_deterministic: the table the written file decodes to.
write_parquet_deterministic(rows, sort_key) == Table(SortRows(rows, sort_key))

(***************************************************************************)
(* axm_build/merkle.py                                                     *)
(***************************************************************************)

\* A builder that leaves out every file named manifest.json.
BuildMerkleFiles_any_manifest(d) ==
    { p \in WalkFiles(d, Root) :
        /\ NameBytes(Basename(p)) # NameBytes("manifest.json")
        /\ ~StartsWith(RelBytes(p), NameBytes("sig") \o <<47>>) }

\* The files the builder hashes: what rglob("*") yields, kept when is_file()
\* holds, except manifest.json and everything below sig/.
BuildMerkleFiles(d) ==
    { p \in WalkFiles(d, Root) :
        /\ RelBytes(p) # NameBytes("manifest.json")
        /\ ~StartsWith(RelBytes(p), NameBytes("sig") \o <<47>>) }

\* files.sort(key=lambda x: x[0].encode("utf-8")) on the list in the order
\* rglob produced it.
RECURSIVE InsertByRel(_, _)
InsertByRel(sorted, p) ==
    IF sorted = <<>> THEN <<p>>
    ELSE IF LessBytes(RelBytes(p), RelBytes(Head(sorted))) THEN <<p>> \o sorted
    ELSE <<Head(sorted)>> \o InsertByRel(Tail(sorted), p)

SortListing_unsorted(listing) == listing

RECURSIVE SortListing(_)
SortListing(listing) ==
    IF listing = <<>> THEN <<>>
    ELSE InsertByRel(SortListing(SubSeq(listing, 1, Len(listing) - 1)), listing[Len(listing)])

\* Orders in which the file system may enumerate a set of files: the
\* rotations of one order and of its reverse.
Rotate(seq, k) == [i \in 1..Len(seq) |-> seq[((i + k - 1) % Len(seq)) + 1]]

Reverse(seq) == [i \in 1..Len(seq) |-> seq[Len(seq) + 1 - i]]

Listings(S) ==
    LET one == SortByRel(S)
    IN  IF S = {} THEN { <<>> }
        ELSE { Rotate(one, k) : k \in 0..(Len(one) - 1) }
                 \cup { Rotate(Reverse(one), k) : k \in 0..(Len(one) - 1) }

\* axm_build.merkle.compute_merkle_root on the files as enumerated; the fold
\* of lines 44-50 is the loop of crypto.py.
build_compute_merkle_root(d, listing) ==
    LET files  == SortListing(listing)
        leaves == [i \in 1..Len(files) |->
                      Blake3(<<RelBytes(files[i]), <<0>>, FileData(d, files[i])>>)]
    IN  MerkleFold(leaves)

(***************************************************************************)
(* compile_generic_shard as a state machine.  build.pcb is the position of  *)
(* the call; the self-verification at its end is verify_shard running on   *)
(* the directory just written.                                             *)
(***************************************************************************)

MaxCandidates == 2

\* Normalized source texts.
Sources ==
    { <<"a", "a", "a", "LF">>, <<"a", "b", "a", "b", "LF">>, <<"a", "C3", "A9", "b", "LF">> }

Candidate(subject, predicate, object, object_type, tier, evidence) ==
    [subject |-> subject, predicate |-> predicate, object |-> object,
     object_type |-> object_type, tier |-> tier, evidence |-> evidence]

\* Parsed lines of candidates.jsonl.
CandidatePool ==
    { Candidate(<<"a">>, <<"a">>, <<"b">>, "entity", <<"int", 2>>, <<"b">>),
      Candidate(<<"b">>, <<"b">>, <<"A", " ">>, "literal:string", <<"missing", 0>>, <<"U+00E9">>),
      Candidate(<<"a">>, <<"a">>, <<"b">>, "entity", <<"int", 5>>, <<"a", "a">>),
      Candidate(<<" ", "a">>, <<"b">>, <<"b">>, "entity", <<"int", -1>>, <<"a">>),
      Candidate(<<"b">>, <<"a">>, <<>>, "entity", <<"str", 4>>, <<"b">>),
      Candidate(<<>>, <<"a">>, <<"b">>, "entity", <<"int", 1>>, <<"b">>),
      Candidate(<<"A">>, <<"a">>, <<"b">>, "bogus", <<"int", 1>>, <<"b">>),
      Candidate(<<"a", "NUL">>, <<"a">>, <<"b">>, "entity", <<"int", 1>>, <<"b">>),
      Candidate(<<"b">>, <<"a">>, <<"a">>, "literal:integer", <<"junk", 0>>, <<>>),
      Candidate(<<"b">>, <<"NUL">>, <<"a">>, "literal:string", <<"junk", 0>>, <<"b">>) }

CandidateLists == UNION { [1..n -> CandidatePool] : n \in 0..MaxCandidates }

\* The output directory does not exist.
NoDir ==
    [Unsealed EXCEPT !.tree = [p \in AllPaths |-> "absent"],
                     !.tables = [t \in TableNames |-> Table(<<>>)]]

\* Lines 83-89: the output directory removed and made afresh, the four
\* subdirectories, content/source.txt written.
FreshDir(content_bytes) ==
    [NoDir EXCEPT !.tree = [p \in AllPaths |->
                              IF p \in {Root, <<"content">>, <<"graph">>, <<"evidence">>, <<"sig">>}
                              THEN "dir"
                              ELSE IF p = <<"content", "source.txt">> THEN "file" ELSE "absent"],
                  !.content = [q \in ContentPaths |->
                                 IF q = <<"content", "source.txt">> THEN content_bytes
                                 ELSE NotesBytes]]

\* A call starts: source and candidates files exist, the output directory
\* holds an earlier shard or does not exist.
BuildInit ==
    /\ disk \in {NoDir, GoldShard}
    /\ faults = 0
    /\ pc = "env"
    /\ trusted = "K1"
    /\ errors = <<>>
    /\ status = "none"
    /\ ran = {}
    /\ entity_ids = {}
    /\ claim_ids = {}
    /\ content_hashes = {}
    /\ content_map = <<>>
    /\ flipped = FALSE
    /\ merkle = NoMerkle
    /\ canon = NoCanon
    /\ call = NoCall
    /\ judge = NoJudge
    /\ \E src \in Sources : \E cs \in CandidateLists :
          build = [NoBuild EXCEPT !.pcb = "prepare", !.source = src, !.cands = cs]

verifier == <<pc, trusted, errors, status, ran, entity_ids, claim_ids, content_hashes,
              content_map>>

\* return False / return res.get("status") == "PASS" / an exception leaves
\* compile_generic_shard.
BuildEnds(result) == build' = [build EXCEPT !.pcb = "done", !.result = result]

\* Lines 75-100: content/source.txt written into a fresh directory, the
\* candidates loaded.
BuildPrepare ==
    /\ build.pcb = "prepare"
    /\ disk' = FreshDir(build.source)
    /\ IF build.cands = <<>> THEN BuildEnds("False")
       ELSE build' = [build EXCEPT !.pcb = "pass1"]
    /\ UNCHANGED <<faults, flipped, verifier>>

\* Pass 1: entities
BuildEntities ==
    /\ build.pcb = "pass1"
    /\ LET r == Pass1(build.cands, GoldNamespace, <<>>)
       IN  IF r.raised THEN BuildEnds("raised")
           ELSE build' = [build EXCEPT !.pcb = "pass2", !.i = 1, !.entities = r.entities]
    /\ UNCHANGED <<disk, faults, flipped, verifier>>

\* Pass 2: one candidate
BuildCandidate ==
    /\ build.pcb = "pass2"
    /\ build.i <= Len(build.cands)
    /\ LET r == Pass2Step(build.cands[build.i], build.entities, GoldNamespace, build.source)
       IN  IF r.kind = "raise" THEN BuildEnds("raised")
           ELSE build' = [build EXCEPT !.i = @ + 1,
                                       !.claim_rows = @ \o r.rows.claim,
                                       !.prov_rows = @ \o r.rows.prov,
                                       !.span_rows = @ \o r.rows.span]
    /\ UNCHANGED <<disk, faults, flipped, verifier>>

\* The rows of the entities table, in the order of the dict.
EntityRows(entities, namespace) ==
    [i \in 1..Len(entities) |->
        [entity_id |-> entities[i].id, namespace |-> namespace,
         label |-> entities[i].label, entity_type |-> "concept"]]

\* Lines 207-211: the four tables written.
WithTables(d, b) ==
    [d EXCEPT !.tree = [p \in AllPaths |-> IF p \in TablePaths THEN "file" ELSE @[p]],
              !.tables = [entities   |-> write_parquet_deterministic(
                                             EntityRows(b.entities, GoldNamespace), "entity_id"),
                          claims     |-> write_parquet_deterministic(b.claim_rows, "claim_id"),
                          provenance |-> write_parquet_deterministic(b.prov_rows, "provenance_id"),
                          spans      |-> write_parquet_deterministic(b.span_rows, "span_id")]]

\* Lines 213-232: manifest with the Merkle root, public key, signature.
\* manifest_bytes = dumps_canonical_json(manifest) is both written and signed.
WithManifest(d, merkle_root) ==
    LET m == [form |-> "object", root |-> merkle_root, enc |-> "canonical"]
    IN  [d EXCEPT !.tree = [p \in AllPaths |->
                               IF p \in {ManifestPath, PubPath, SigPath} THEN "file" ELSE @[p]],
                  !.manifest = m, !.pub = "K1", !.sig = Sign("K1", m)]

\* Lines 204-240: no claim row ends the call; otherwise tables, manifest and
\* signature are written and verify_shard is called with the publisher key.
\* build.files is the list of merkle.py as rglob filled it, before the sort.
BuildWrite ==
    /\ build.pcb = "pass2"
    /\ build.i > Len(build.cands)
    /\ IF build.claim_rows = <<>>
       THEN /\ BuildEnds("False")
            /\ UNCHANGED <<disk, verifier>>
       ELSE /\ \E listing \in Listings(BuildMerkleFiles(WithTables(disk, build))) :
                  /\ disk' = WithManifest(WithTables(disk, build),
                              build_compute_merkle_root(WithTables(disk, build), listing))
                  /\ build' = [build EXCEPT !.pcb = "verify", !.files = listing]
            /\ pc' = "layout"
            /\ trusted' = "K1"
            /\ UNCHANGED <<errors, status, ran, locals>>
    /\ UNCHANGED <<faults, flipped>>

\* verify_shard(cfg.out_dir, trusted_path), stage by stage.
BuildSelfVerify ==
    /\ build.pcb \in {"verify", "reverify"}
    /\ \/ VerifyLayout
       \/ VerifyManifest
       \/ VerifyCrypto
       \/ VerifyMerkle
       \/ VerifySchema
       \/ VerifyIds
       \/ ScanContent
       \/ VerifyProvenance
       \/ VerifySpans
    /\ UNCHANGED build

BuildReturn_always_true ==
    /\ build.pcb = "verify"
    /\ pc = "done"
    /\ BuildEnds("True")
    /\ UNCHANGED <<disk, faults, flipped, verifier>>

\* Line 245
BuildReturn ==
    /\ build.pcb = "verify"
    /\ pc = "done"
    /\ BuildEnds(IF status = "RAISED" THEN "raised"
                 ELSE IF status = "PASS" THEN "True" ELSE "False")
    /\ UNCHANGED <<disk, faults, flipped, verifier>>

\* Other encodings of the JSON value of a manifest: whitespace between
\* tokens, members in another order, characters written as \u escapes.
Reencodings == {"spaced", "reordered", "escaped"}

\* After a successful build, manifest.json is rewritten with other bytes
\* that decode to the same value, and verify_shard is called on the
\* directory with the publisher key.
Reencode(e) ==
    /\ build.pcb = "done"
    /\ build.result = "True"
    /\ disk' = [disk EXCEPT !.manifest.enc = e]
    /\ build' = [build EXCEPT !.pcb = "reverify"]
    /\ pc' = "layout"
    /\ errors' = <<>>
    /\ status' = "none"
    /\ ran' = {}
    /\ entity_ids' = {}
    /\ claim_ids' = {}
    /\ content_hashes' = {}
    /\ content_map' = <<>>
    /\ UNCHANGED <<faults, flipped, trusted>>

BuildNext ==
    /\ UNCHANGED <<merkle, canon, call, judge>>
    /\ \/ BuildPrepare
       \/ BuildEntities
       \/ BuildCandidate
       \/ BuildWrite
       \/ BuildSelfVerify
       \/ BuildReturn
       \/ \E e \in Reencodings : Reencode(e)

BuildSpec == BuildInit /\ [][BuildNext]_vars


(***************************************************************************)
(* compute_merkle_root (axm_verify/crypto.py and axm_build/merkle.py) as a  *)
(* state machine of its own: calls on a small directory, with changes to    *)
(* the directory between calls.                                             *)
(***************************************************************************)

MaxFiles == 3

MaxTouches == 1

\* Files of the directory that may be hashed, and files at excluded places.
HashedCandidates ==
    { <<"a.txt">>, <<"b.txt">>, <<"graph", "manifest.json">>, <<"content", "sig", "x">> }

ExcludedCandidates == { ManifestPath, SigPath }

\* A directory holding the given files (test_merkle_vectors: a.txt is "a\n",
\* b.txt is "b\n").
MerkleDir(present) ==
    [NoDir EXCEPT
        !.tree = [p \in AllPaths |->
                    IF p \in {Root, <<"sig">>, <<"content">>, <<"content", "sig">>, <<"graph">>}
                    THEN "dir"
                    ELSE IF p \in present THEN "file" ELSE "absent"],
        !.extraData = [p \in DOMAIN @ |->
                         IF p = <<"a.txt">> THEN <<"a", "LF">>
                         ELSE IF p = <<"b.txt">> THEN <<"b", "LF">>
                         ELSE @[p]]]

MerkleInit ==
    /\ \E hashed \in SUBSET HashedCandidates : \E excluded \in SUBSET ExcludedCandidates :
          /\ Cardinality(hashed) <= MaxFiles
          /\ disk = MerkleDir(hashed \cup excluded)
    /\ faults = 0
    /\ pc = "env"
    /\ trusted = "K1"
    /\ errors = <<>>
    /\ status = "none"
    /\ ran = {}
    /\ entity_ids = {}
    /\ claim_ids = {}
    /\ content_hashes = {}
    /\ content_map = <<>>
    /\ flipped = FALSE
    /\ build = NoBuild
    /\ merkle = NoMerkle
    /\ canon = NoCanon
    /\ call = NoCall
    /\ judge = NoJudge

\* The call and its walk: os.walk (crypto.py) or rglob (merkle.py) fills the
\* files list in the order the file system enumerates.
MerkleWalk(impl) ==
    /\ merkle.pcm \in {"idle", "returned"}
    /\ \E listing \in Listings(IF impl = "axm_verify" THEN MerkleFiles(disk)
                               ELSE BuildMerkleFiles(disk)) :
          merkle' = [merkle EXCEPT !.pcm = "walked", !.impl = impl, !.files = listing,
                                   !.at = disk, !.prev = merkle.root, !.before = merkle.at]
    /\ UNCHANGED disk

\* files.sort(...) and the leaves loop.
MerkleLeaves ==
    /\ merkle.pcm = "walked"
    /\ LET files == SortListing(merkle.files)
       IN  merkle' = [merkle EXCEPT
                         !.pcm = "fold", !.files = <<>>,
                         !.leaves = [i \in 1..Len(files) |->
                                       Blake3(<<RelBytes(files[i]), <<0>>,
                                                FileData(disk, files[i])>>)]]
    /\ UNCHANGED disk

\* One iteration of "while len(leaves) > 1".
MerkleLevelStep ==
    /\ merkle.pcm = "fold"
    /\ Len(merkle.leaves) > 1
    /\ merkle' = [merkle EXCEPT !.leaves = MerkleLevel(merkle.leaves)]
    /\ UNCHANGED disk

\* "if not leaves: return blake3(b'')" and "return leaves[0]".
MerkleReturn ==
    /\ merkle.pcm = "fold"
    /\ Len(merkle.leaves) <= 1
    /\ merkle' = [merkle EXCEPT !.pcm = "returned", !.leaves = <<>>,
                                !.root = IF merkle.leaves = <<>> THEN Blake3(<<>>)
                                         ELSE merkle.leaves[1]]
    /\ UNCHANGED disk

\* Between two calls somebody creates, deletes or rewrites a file.
TouchPaths == ExcludedCandidates \cup { <<"graph", "manifest.json">>, <<"content", "sig", "x">> }

Rewritten(d, p) ==
    IF p = ManifestPath
    THEN [d EXCEPT !.manifest.form = IF @ = "object" THEN "nonobject" ELSE "object"]
    ELSE IF p = SigPath
    THEN [d EXCEPT !.sig = Sign(IF @.key = "K1" THEN "K2" ELSE "K1", d.manifest)]
    ELSE [d EXCEPT !.extraData[p] = FlippedBytes(@)]

MerkleTouch(p) ==
    /\ merkle.pcm = "returned"
    /\ merkle.touches < MaxTouches
    /\ \/ disk.tree[p] = "absent" /\ disk' = [disk EXCEPT !.tree[p] = "file"]
       \/ disk.tree[p] = "file" /\ disk' = [disk EXCEPT !.tree[p] = "absent"]
       \/ disk.tree[p] = "file" /\ disk' = Rewritten(disk, p)
    /\ merkle' = [merkle EXCEPT !.touches = @ + 1]

MerkleNext ==
    /\ UNCHANGED <<faults, verifier, flipped, build, canon, call, judge>>
    /\ \/ \E impl \in {"axm_verify", "axm_build"} : MerkleWalk(impl)
       \/ MerkleLeaves
       \/ MerkleLevelStep
       \/ MerkleReturn
       \/ \E p \in TouchPaths : MerkleTouch(p)

MerkleSpec == MerkleInit /\ [][MerkleNext]_vars


(***************************************************************************)
(* axm_build/manifest.py: dumps_canonical_json, and json.loads as the       *)
(* verifier reads a manifest (axm_verify/logic.py).  A JSON value is a      *)
(* tagged pair: <<"str", characters>>, <<"int", n>>, <<"list", items>>,     *)
(* <<"obj", members>> with members the (key, value) pairs of a dict in      *)
(* insertion order.                                                         *)
(***************************************************************************)

MaxKeys == 2

\* Code points of the characters of the text alphabet.
CodePoint(c) ==
    CASE c = "LF" -> 10 [] c = " " -> 32 [] c = "\"" -> 34 [] c = "\\" -> 92
      [] c = "a" -> 97 [] c = "b" -> 98 [] c = "U+00E9" -> 233

CodePoints(s) == [i \in 1..Len(s) |-> CodePoint(s[i])]

\* sort_keys=True: the items of a dict sorted by key (str comparison).
RECURSIVE InsertMember(_, _)
InsertMember(sorted, member) ==
    IF sorted = <<>> THEN <<member>>
    ELSE IF LessBytes(CodePoints(member[1]), CodePoints(Head(sorted)[1]))
         THEN <<member>> \o sorted
         ELSE <<Head(sorted)>> \o InsertMember(Tail(sorted), member)

SortMembers_insertion_order(members) == members

RECURSIVE SortMembers(_)
SortMembers(members) ==
    IF members = <<>> THEN <<>>
    ELSE InsertMember(SortMembers(SubSeq(members, 1, Len(members) - 1)),
                      members[Len(members)])

\* A string literal with ensure_ascii=False: quote, backslash and control
\* characters escaped, everything else as it is.
RECURSIVE Escaped(_)
Escaped(s) ==
    IF s = <<>> THEN <<>>
    ELSE (CASE Head(s) = "\"" -> <<"\\", "\"">>
            [] Head(s) = "\\" -> <<"\\", "\\">>
            [] Head(s) = "LF" -> <<"\\", "n">>
            [] OTHER -> <<Head(s)>>) \o Escaped(Tail(s))

Quoted(s) == <<"\"">> \o Escaped(s) \o <<"\"">>

\* int.__repr__
RECURSIVE NatStr(_)
NatStr(n) == IF n < 10 THEN <<Decimal(n)>> ELSE NatStr(n \div 10) \o <<Decimal(n % 10)>>

IntStr(n) == IF n < 0 THEN <<"-">> \o NatStr(0 - n) ELSE NatStr(n)

\* json.dumps(obj, sort_keys=True, separators=(",", ":"), ensure_ascii=False)
RECURSIVE Dumps(_), DumpsItems(_), DumpsMembers(_)
Dumps(v) ==
    CASE v[1] = "str"  -> Quoted(v[2])
      [] v[1] = "int"  -> IntStr(v[2])
      [] v[1] = "list" -> <<"[">> \o DumpsItems(v[2]) \o <<"]">>
      [] v[1] = "obj"  -> <<"{">> \o DumpsMembers(SortMembers(v[2])) \o <<"}">>

DumpsItems(items) ==
    IF items = <<>> THEN <<>>
    ELSE Dumps(Head(items)) \o (IF Len(items) > 1 THEN <<",">> ELSE <<>>)
             \o DumpsItems(Tail(items))

DumpsMembers(members) ==
    IF members = <<>> THEN <<>>
    ELSE Quoted(Head(members)[1]) \o <<":">> \o Dumps(Head(members)[2])
             \o (IF Len(members) > 1 THEN <<",">> ELSE <<>>) \o DumpsMembers(Tail(members))

dumps_canonical_json(obj) == Utf8Encode(Dumps(obj))

\* json.loads: the decoder.  A parse yields ok, the value and the rest of
\* the text.
ParseFail == [ok |-> FALSE, val |-> <<>>, rest |-> <<>>]

Parsed(val, rest) == [ok |-> TRUE, val |-> val, rest |-> rest]

RECURSIVE SkipWs(_)
SkipWs(s) == IF s # <<>> /\ Head(s) \in {" ", "LF"} THEN SkipWs(Tail(s)) ELSE s

\* The characters of a string literal after its opening quote.
RECURSIVE ParseChars(_, _)
ParseChars(s, acc) ==
    IF s = <<>> THEN ParseFail
    ELSE IF Head(s) = "\"" THEN Parsed(<<"str", acc>>, Tail(s))
    ELSE IF Head(s) = "LF" THEN ParseFail
    ELSE IF Head(s) = "\\"
         THEN IF Len(s) < 2 THEN ParseFail
              ELSE IF s[2] \in {"\"", "\\"} THEN ParseChars(SubSeq(s, 3, Len(s)), Append(acc, s[2]))
              ELSE IF s[2] = "n" THEN ParseChars(SubSeq(s, 3, Len(s)), Append(acc, "LF"))
              ELSE ParseFail
    ELSE ParseChars(Tail(s), Append(acc, Head(s)))

Digits == {"0", "1", "2", "3", "4", "5", "6", "7", "8", "9"}

DigitValue(c) == CHOOSE n \in 0..9 : Decimal(n) = c

RECURSIVE ParseDigits(_, _)
ParseDigits(s, n) ==
    IF s # <<>> /\ Head(s) \in Digits THEN ParseDigits(Tail(s), 10 * n + DigitValue(Head(s)))
    ELSE Parsed(n, s)

\* -?(0|[1-9][0-9]*)
ParseNat(s) ==
    IF s = <<>> \/ Head(s) \notin Digits THEN ParseFail
    ELSE IF Head(s) = "0" THEN Parsed(0, Tail(s))
    ELSE ParseDigits(s, 0)

ParseInt(s) ==
    LET neg == s # <<>> /\ Head(s) = "-"
        r   == ParseNat(IF neg THEN Tail(s) ELSE s)
    IN  IF ~r.ok THEN ParseFail
        ELSE Parsed(<<"int", IF neg THEN 0 - r.val ELSE r.val>>, r.rest)

\* dict[key] = value: a key already present keeps its place.
SetMember(members, key, value) ==
    IF \E i \in 1..Len(members) : members[i][1] = key
    THEN [i \in 1..Len(members) |-> IF members[i][1] = key THEN <<key, value>> ELSE members[i]]
    ELSE Append(members, <<key, value>>)

RECURSIVE ParseValue(_), ParseItems(_, _), ParseMembers(_, _)
ParseValue(text) ==
    LET s == SkipWs(text)
    IN  IF s = <<>> THEN ParseFail
        ELSE IF Head(s) = "\"" THEN ParseChars(Tail(s), <<>>)
        ELSE IF Head(s) = "[" THEN
             (IF SkipWs(Tail(s)) # <<>> /\ Head(SkipWs(Tail(s))) = "]"
              THEN Parsed(<<"list", <<>>>>, Tail(SkipWs(Tail(s))))
              ELSE ParseItems(Tail(s), <<>>))
        ELSE IF Head(s) = "{" THEN
             (IF SkipWs(Tail(s)) # <<>> /\ Head(SkipWs(Tail(s))) = "}"
              THEN Parsed(<<"obj", <<>>>>, Tail(SkipWs(Tail(s))))
              ELSE ParseMembers(Tail(s), <<>>))
        ELSE ParseInt(s)

\* The items of a list after "[" or ",".
ParseItems(text, acc) ==
    LET r    == ParseValue(text)
        rest == SkipWs(r.rest)
    IN  IF ~r.ok \/ rest = <<>> THEN ParseFail
        ELSE IF Head(rest) = "," THEN ParseItems(Tail(rest), Append(acc, r.val))
        ELSE IF Head(rest) = "]" THEN Parsed(<<"list", Append(acc, r.val)>>, Tail(rest))
        ELSE ParseFail

\* The members of an object after "{" or ",".
ParseMembers(text, acc) ==
    LET s     == SkipWs(text)
        k     == IF s # <<>> /\ Head(s) = "\"" THEN ParseChars(Tail(s), <<>>) ELSE ParseFail
        colon == SkipWs(k.rest)
        r     == IF k.ok /\ colon # <<>> /\ Head(colon) = ":" THEN ParseValue(Tail(colon))
                 ELSE ParseFail
        rest  == SkipWs(r.rest)
    IN  IF ~r.ok \/ rest = <<>> THEN ParseFail
        ELSE IF Head(rest) = "," THEN ParseMembers(Tail(rest), SetMember(acc, k.val[2], r.val))
        ELSE IF Head(rest) = "}"
             THEN Parsed(<<"obj", SetMember(acc, k.val[2], r.val)>>, Tail(rest))
        ELSE ParseFail

\* json.loads(manifest_bytes): raises (not ok) on malformed UTF-8, malformed
\* JSON and extra data.
json_loads(bytes) ==
    IF ~Utf8Valid(bytes) THEN ParseFail
    ELSE LET r == ParseValue(Utf8Decode(bytes))
         IN  IF r.ok /\ SkipWs(r.rest) = <<>> THEN r ELSE ParseFail

\* Manifest mappings: up to MaxKeys keys in every insertion order, with
\* string, integer, list and nested mapping values.
JsonKeys == { <<"b">>, <<"a", " ">>, <<"U+00E9">>, <<"a">> }

JsonValues ==
    { <<"str", <<"a", " ", "\"">>>>,
      <<"str", <<"U+00E9", "\\", "LF">>>>,
      <<"int", -7>>,
      <<"int", 120>>,
      <<"list", << <<"int", 0>>, <<"str", <<>>>> >>>>,
      <<"obj", << << <<"b">>, <<"str", <<>>>> >>, << <<"a">>, <<"list", <<>>>> >> >>>>,
      <<"list", << <<"obj", << << <<"U+00E9">>, <<"int", 0>> >>,
                               << <<"a">>, <<"obj", <<>>>> >> >>>> >>>> }

Manifests ==
    { <<"obj", members>> :
        members \in { m \in UNION { [1..n -> JsonKeys \X JsonValues] : n \in 0..MaxKeys } :
                        \A i \in DOMAIN m : \A j \in DOMAIN m : i # j => m[i][1] # m[j][1] } }

JsonInit ==
    /\ disk = GoldShard
    /\ faults = 0
    /\ pc = "env"
    /\ trusted = "K1"
    /\ errors = <<>>
    /\ status = "none"
    /\ ran = {}
    /\ entity_ids = {}
    /\ claim_ids = {}
    /\ content_hashes = {}
    /\ content_map = <<>>
    /\ flipped = FALSE
    /\ build = NoBuild
    /\ merkle = NoMerkle
    /\ call = NoCall
    /\ judge = NoJudge
    /\ \E obj \in Manifests : canon = [NoCanon EXCEPT !.pcj = "input", !.obj = obj]

CanonEncode ==
    /\ canon.pcj = "input"
    /\ canon' = [canon EXCEPT !.pcj = "encoded", !.bytes = dumps_canonical_json(canon.obj)]

CanonDecode ==
    /\ canon.pcj = "encoded"
    /\ canon' = [canon EXCEPT !.pcj = "decoded", !.back = json_loads(canon.bytes)]

CanonReencode ==
    /\ canon.pcj = "decoded"
    /\ canon.back.ok
    /\ canon' = [canon EXCEPT !.pcj = "reencoded",
                              !.again = dumps_canonical_json(canon.back.val)]

JsonNext ==
    /\ UNCHANGED <<disk, faults, verifier, flipped, build, merkle, call, judge>>
    /\ \/ CanonEncode
       \/ CanonDecode
       \/ CanonReencode

JsonSpec == JsonInit /\ [][JsonNext]_vars


(***************************************************************************)
(* canonicalize (axm_verify/identity.py) called on its own.                 *)
(***************************************************************************)

MaxLen == 4

IdentitySymbols == {"a", "A", " ", "TAB", "SOH", "NUL"}

\* The vector "  Hello   World  " on the alphabet: capitals A, letters a, b.
HelloWorld == <<" ", " ", "A", "a", " ", " ", " ", "A", "b", " ", " ">>

IdentityInputs ==
    UNION { [1..n -> IdentitySymbols] : n \in 0..MaxLen } \cup {HelloWorld}

\* Everything but the call record, at rest.
Idle ==
    /\ disk = GoldShard
    /\ faults = 0
    /\ pc = "env"
    /\ trusted = "K1"
    /\ errors = <<>>
    /\ status = "none"
    /\ ran = {}
    /\ entity_ids = {}
    /\ claim_ids = {}
    /\ content_hashes = {}
    /\ content_map = <<>>
    /\ flipped = FALSE
    /\ build = NoBuild
    /\ merkle = NoMerkle
    /\ canon = NoCanon

IdentityInit ==
    /\ Idle
    /\ judge = NoJudge
    /\ \E text \in IdentityInputs : call = [NoCall EXCEPT !.pcc = "called", !.arg = text]

Canonicalize ==
    /\ call.pcc = "called"
    /\ call' = [call EXCEPT !.pcc = "returned", !.out = canonicalize(call.arg)]

IdentityNext ==
    /\ UNCHANGED <<disk, faults, verifier, flipped, build, merkle, canon, judge>>
    /\ Canonicalize

IdentitySpec == IdentityInit /\ [][IdentityNext]_vars


(***************************************************************************)
(* The schema stage of verify_shard entered with the four table files in    *)
(* any condition.                                                           *)
(***************************************************************************)

MaxBadTables == 2

\* What may be wrong with one table file: it is missing; it is larger than
\* MAX_FILE_BYTES ("size"); its metadata announce more than MAX_PARQUET_ROWS
\* rows ("rows"); pyarrow cannot read it; its columns differ from the
\* expected schema; a column holds a null.
TableConditions ==
    { {"missing"}, {"size"}, {"rows"}, {"unreadable"}, {"schema"}, {"nulls"},
      {"schema", "nulls"}, {"unreadable", "schema"}, {"rows", "nulls"}, {"missing", "nulls"},
      {"size", "rows", "unreadable", "schema", "nulls"} }

InCondition(d, cond) ==
    [d EXCEPT !.tree = [p \in AllPaths |->
                          IF p \in TablePaths /\ TableOf(p) \in DOMAIN cond
                                /\ "missing" \in cond[TableOf(p)]
                          THEN "absent" ELSE @[p]],
              !.tables = [t \in TableNames |->
                            IF t \in DOMAIN cond
                            THEN [@[t] EXCEPT !.defects = cond[t] \ {"missing"}]
                            ELSE @[t]]]

SchemaInit ==
    /\ \E bad \in SUBSET TableNames :
          /\ Cardinality(bad) <= MaxBadTables
          /\ \E cond \in [bad -> TableConditions] : disk = InCondition(GoldShard, cond)
    /\ faults = 0
    /\ pc = "schema"
    /\ trusted = "K1"
    /\ errors = <<>>
    /\ status = "none"
    /\ ran = {"layout", "manifest", "crypto", "merkle"}
    /\ entity_ids = {}
    /\ claim_ids = {}
    /\ content_hashes = {}
    /\ content_map = <<>>
    /\ flipped = FALSE
    /\ build = NoBuild
    /\ merkle = NoMerkle
    /\ canon = NoCanon
    /\ call = NoCall
    /\ judge = NoJudge

SchemaNext ==
    /\ UNCHANGED <<build, merkle, canon, call, judge>>
    /\ \/ VerifySchema
       \/ VerifyIds
       \/ ScanContent
       \/ VerifyProvenance
       \/ VerifySpans

SchemaSpec == SchemaInit /\ [][SchemaNext]_vars


(***************************************************************************)
(* axm_judge/cli.py: one run of the stream judge on a capsule directory.   *)
(* cam_latents.bin is a sequence of 269-byte slots, each given by the      *)
(* header fields struct.unpack reads and the number of its bytes that are  *)
(* in the file (fewer than 269 only for a last slot torn at EOF).          *)
(* cam_residuals.bin is a sequence of header-only records.                 *)
(***************************************************************************)

MaxEvents == 3

MaxFrames == 2

HEADER_LEN == 13

LATENT_REC_LEN == 269

VERSION == 1

Sha256(record) == <<"sha256", record>>

\* _write_latents: frame k as the harness writes it.
Frame(k) ==
    [magic |-> "LATN", ver |-> VERSION, fid |-> k, dlen |-> LATENT_REC_LEN - HEADER_LEN,
     bytes |-> LATENT_REC_LEN]

\* A slot with another magic, version or frame id.
DamagedFrames(k) ==
    { [Frame(k) EXCEPT !.magic = "RSID"], [Frame(k) EXCEPT !.ver = VERSION + 1],
      [Frame(k) EXCEPT !.fid = k + 1] }

\* A last slot cut inside its header or inside its payload.
TornFrames(k) ==
    { [Frame(k) EXCEPT !.bytes = HEADER_LEN - 1], [Frame(k) EXCEPT !.bytes = LATENT_REC_LEN - 1] }

\* cam_latents.bin: missing, or up to MaxFrames slots of which at most one
\* is damaged or (the last one) torn.
LatentSlots ==
    UNION { { [k \in 1..n |-> Frame(k - 1)] } \cup
            UNION { { [k \in 1..n |-> IF k = b THEN f ELSE Frame(k - 1)] :
                          f \in DamagedFrames(b - 1) } : b \in 1..n }
            \cup { [k \in 1..n |-> IF k = n THEN f ELSE Frame(k - 1)] : f \in TornFrames(n - 1) }
          : n \in 0..MaxFrames }

LatentFiles ==
    { [exists |-> FALSE, slots |-> <<>>] } \cup { [exists |-> TRUE, slots |-> sl] : sl \in LatentSlots }

\* cam_residuals.bin: missing, or records given by their frame ids, torn
\* for a record the scan cannot read.
Residual(fid) == [fid |-> fid, torn |-> FALSE]

ResidualFiles ==
    { [exists |-> FALSE, recs |-> <<>>],
      [exists |-> TRUE, recs |-> <<Residual(0), Residual(0), [fid |-> 1, torn |-> TRUE],
                                   Residual(1)>>] }

\* One line of events.jsonl: frame_id and stream_refs.latents.offset/length.
\* The offset is the computed one or one byte off, the length the record
\* length or one byte less.
Events ==
    { [frame_id |-> k, offset |-> k * LATENT_REC_LEN + d, length |-> LATENT_REC_LEN - e] :
          k \in 0..MaxFrames, d \in {0, 1}, e \in {0, 1} }
    \ { [frame_id |-> k, offset |-> k * LATENT_REC_LEN + 1, length |-> LATENT_REC_LEN - 1] :
          k \in 0..MaxFrames }

EventFiles == UNION { [1..n -> Events] : n \in 0..MaxEvents }

\* _scan_residuals: the records before the first one that cannot be read,
\* with the offsets at which they start.
RECURSIVE ScanResiduals(_, _)
ScanResiduals(file, k) ==
    IF ~file.exists \/ k > Len(file.recs) \/ file.recs[k].torn THEN <<>>
    ELSE << [frame_id |-> file.recs[k].fid, stream |-> "residuals",
             offset |-> (k - 1) * HEADER_LEN,
             length |-> HEADER_LEN, content_hash |-> Sha256(file.recs[k]),
             status |-> "VERIFIED"] >> \o ScanResiduals(file, k + 1)

\* judge.residual_index[fid]
ResidualRows(index, fid) == SelectSeq(index, LAMBDA rec : rec.frame_id = fid)

\* StreamJudge.verify_latent
verify_latent(f_lat, claimed_offset, claimed_len, expected_fid) ==
    LET math_offset == expected_fid * LATENT_REC_LEN
        at_eof      == expected_fid + 1 > Len(f_lat.slots)
        slot        == f_lat.slots[expected_fid + 1]
    IN  IF claimed_offset # math_offset THEN [stat |-> "OFFSET_DRIFT", h |-> "None"]
        ELSE IF at_eof \/ slot.bytes < HEADER_LEN THEN [stat |-> "EOF", h |-> "None"]
        ELSE IF slot.magic # "LATN" \/ slot.ver # VERSION THEN [stat |-> "BAD_HEADER", h |-> "None"]
        ELSE IF slot.fid # expected_fid THEN [stat |-> "DRIFT", h |-> "None"]
        ELSE IF slot.dlen # claimed_len - HEADER_LEN THEN [stat |-> "LENGTH_DRIFT", h |-> "None"]
        ELSE IF slot.bytes - HEADER_LEN < slot.dlen THEN [stat |-> "EOF", h |-> "None"]
        ELSE [stat |-> "VERIFIED", h |-> Sha256(slot)]

\* key=lambda r: (r["stream"], int(r["frame_id"]), int(r["offset"]))
StreamLess(a, b) ==
    \/ a.stream = "latents" /\ b.stream = "residuals"
    \/ a.stream = b.stream /\ a.frame_id < b.frame_id
    \/ a.stream = b.stream /\ a.frame_id = b.frame_id /\ a.offset < b.offset

RECURSIVE InsertStream(_, _)
InsertStream(sorted, row) ==
    IF sorted = <<>> THEN <<row>>
    ELSE IF StreamLess(row, Head(sorted)) THEN <<row>> \o sorted
    ELSE <<Head(sorted)>> \o InsertStream(Tail(sorted), row)

\* _write_parquet_deterministic: the rows streams.parquet decodes to.
RECURSIVE SortStreams(_)
SortStreams(rows) ==
    IF rows = <<>> THEN <<>>
    ELSE InsertStream(SortStreams(SubSeq(rows, 1, Len(rows) - 1)), rows[Len(rows)])

JudgeInit ==
    /\ Idle
    /\ call = NoCall
    /\ \E lat \in LatentFiles : \E res \in ResidualFiles : \E evs \in EventFiles :
          judge = [NoJudge EXCEPT !.pcj = "open", !.latents = lat, !.residuals = res,
                                  !.jsonl = evs]

JudgeExits(code) == judge' = [judge EXCEPT !.pcj = "exit", !.exit = code]

\* StreamJudge.__init__: residuals scanned, cam_latents.bin opened or
\* JudgeError raised.
JudgeOpen ==
    /\ judge.pcj = "open"
    /\ IF ~judge.latents.exists
       THEN judge' = [judge EXCEPT !.pcj = "exit", !.exit = "JudgeError",
                                   !.residual_index = ScanResiduals(judge.residuals, 1)]
       ELSE judge' = [judge EXCEPT !.pcj = "load",
                                   !.residual_index = ScanResiduals(judge.residuals, 1)]

\* _load_events
JudgeLoad ==
    /\ judge.pcj = "load"
    /\ judge' = [judge EXCEPT !.pcj = "loop", !.events = judge.jsonl, !.i = 1]

\* One pass of the loop that goes on after an event that did not verify.
JudgeEvent_skips_unverified ==
    /\ judge.pcj = "loop"
    /\ judge.i <= Len(judge.events)
    /\ LET evt == judge.events[judge.i]
           r   == verify_latent(judge.latents, evt.offset, evt.length, evt.frame_id)
       IN  IF r.stat # "VERIFIED"
           THEN judge' = [judge EXCEPT !.i = @ + 1]
           ELSE judge' = [judge EXCEPT
                    !.i = @ + 1,
                    !.rows = @ \o << [frame_id |-> evt.frame_id, stream |-> "latents",
                                      offset |-> evt.offset, length |-> evt.length,
                                      content_hash |-> r.h, status |-> "VERIFIED"] >>
                               \o ResidualRows(judge.residual_index, evt.frame_id)]

\* One pass of "for evt in events": SystemExit(1) unless the latent record
\* verifies, else its row and the residual rows of the frame are appended.
JudgeEvent ==
    /\ judge.pcj = "loop"
    /\ judge.i <= Len(judge.events)
    /\ LET evt == judge.events[judge.i]
           r   == verify_latent(judge.latents, evt.offset, evt.length, evt.frame_id)
       IN  IF r.stat # "VERIFIED"
           THEN JudgeExits("1")
           ELSE judge' = [judge EXCEPT
                    !.i = @ + 1,
                    !.rows = @ \o << [frame_id |-> evt.frame_id, stream |-> "latents",
                                      offset |-> evt.offset, length |-> evt.length,
                                      content_hash |-> r.h, status |-> "VERIFIED"] >>
                               \o ResidualRows(judge.residual_index, evt.frame_id)]

\* After the loop: evidence/streams.parquet is written, the run exits 0.
JudgeWrite ==
    /\ judge.pcj = "loop"
    /\ judge.i > Len(judge.events)
    /\ judge' = [judge EXCEPT !.pcj = "exit", !.exit = "0",
                                !.streams = [exists |-> TRUE, rows |-> SortStreams(judge.rows)]]

JudgeNext ==
    /\ UNCHANGED <<disk, faults, verifier, flipped, build, merkle, canon, call>>
    /\ \/ JudgeOpen
       \/ JudgeLoad
       \/ JudgeEvent
       \/ JudgeWrite

JudgeSpec == JudgeInit /\ [][JudgeNext]_vars

(***************************************************************************)
(* The two compute_merkle_root routines called on one directory, which may *)
(* hold symbolic links: axm_verify.crypto first, then axm_build.merkle.    *)
(***************************************************************************)

MaxLinks == 1

\* The directory MerkleDir(present) with the entries in links turned into
\* symbolic links to what they were.
LinkedDir(present, links) ==
    [MerkleDir(present) EXCEPT
        !.tree = [p \in AllPaths |->
                    IF p \in links THEN (IF @[p] = "dir" THEN "symdir" ELSE "symfile")
                    ELSE @[p]]]

AgreeInit ==
    /\ faults = 0
    /\ pc = "env"
    /\ trusted = "K1"
    /\ errors = <<>>
    /\ status = "none"
    /\ ran = {}
    /\ entity_ids = {}
    /\ claim_ids = {}
    /\ content_hashes = {}
    /\ content_map = <<>>
    /\ flipped = FALSE
    /\ build = NoBuild
    /\ merkle = NoMerkle
    /\ canon = NoCanon
    /\ call = NoCall
    /\ judge = NoJudge
    /\ \E present \in SUBSET (HashedCandidates \cup ExcludedCandidates) :
       \E links \in SUBSET (present \cup { <<"graph">>, <<"content", "sig">> }) :
          /\ Cardinality(links) <= MaxLinks
          /\ disk = LinkedDir(present, links)

\* axm_verify.crypto.compute_merkle_root(shard_root): the root or ValueError.
VerifierRoot ==
    /\ merkle.pcm = "idle"
    /\ merkle' = [merkle EXCEPT !.pcm = "walked", !.impl = "axm_verify", !.at = disk,
                                !.prev = compute_merkle_root(disk)]

\* axm_build.merkle.compute_merkle_root(shard_root) on the same directory,
\* rglob enumerating in some order.
BuilderRoot ==
    /\ merkle.pcm = "walked"
    /\ merkle.impl = "axm_verify"
    /\ \E listing \in Listings(BuildMerkleFiles(disk)) :
          merkle' = [merkle EXCEPT !.pcm = "returned", !.impl = "axm_build",
                                   !.files = listing,
                                   !.root = build_compute_merkle_root(disk, listing)]

AgreeNext ==
    /\ UNCHANGED <<disk, faults, verifier, flipped, build, canon, call, judge>>
    /\ \/ VerifierRoot
       \/ BuilderRoot

AgreeSpec == AgreeInit /\ [][AgreeNext]_vars

(***************************************************************************)
(* axm_build/common.py: normalize_source_text.  A text is a sequence of    *)
(* symbols: characters ("LF", "CR", "TAB" for the control characters) and  *)
(* the lowercase words bleed, ing, pi'essure, pressure taken as one symbol *)
(* each.                                                                   *)
(***************************************************************************)

MaxLines == 4

LowerWords == {"bleed", "ing", "pi'essure", "pi-mojibake-essure", "pressure"}

\* str.islower / str.isdigit on one symbol
IsLowerSym(c) == c \in {"a", "b"} \cup LowerWords

IsDigitSym(c) == c \in Digits

\* str.isupper: some cased symbol, and no lowercase one.
isupper(t) ==
    /\ \E k \in 1..Len(t) : t[k] = "A"
    /\ \A k \in 1..Len(t) : ~IsLowerSym(t[k])

\* str.replace(old, new): occurrences from the left, not overlapping.
RECURSIVE Replace(_, _, _)
Replace(s, old, new) ==
    IF Len(s) < Len(old) THEN s
    ELSE IF SubSeq(s, 1, Len(old)) = old
         THEN new \o Replace(SubSeq(s, Len(old) + 1, Len(s)), old, new)
         ELSE <<Head(s)>> \o Replace(Tail(s), old, new)

\* s.split("\n")
RECURSIVE SplitLF(_, _)
SplitLF(s, cur) ==
    IF s = <<>> THEN <<cur>>
    ELSE IF Head(s) = "LF" THEN <<cur>> \o SplitLF(Tail(s), <<>>)
    ELSE SplitLF(Tail(s), Append(cur, Head(s)))

\* "\n".join(lines)
RECURSIVE JoinLF(_)
JoinLF(lines) ==
    IF lines = <<>> THEN <<>>
    ELSE IF Len(lines) = 1 THEN lines[1]
    ELSE lines[1] \o <<"LF">> \o JoinLF(Tail(lines))

\* Lines 68-71: leading and trailing empty lines popped.
RECURSIVE PopLeading(_)
PopLeading(lines) ==
    IF lines # <<>> /\ Head(lines) = <<>> THEN PopLeading(Tail(lines)) ELSE lines

RECURSIVE PopTrailing(_)
PopTrailing(lines) ==
    IF lines # <<>> /\ lines[Len(lines)] = <<>>
    THEN PopTrailing(SubSeq(lines, 1, Len(lines) - 1)) ELSE lines

\* Only "\r\n" is replaced, a lone carriage return stays.
RawLines_lone_cr_kept(s) ==
    LET lf    == Replace(s, <<"CR", "LF">>, <<"LF">>)
        split == SplitLF(lf, <<>>)
    IN  PopTrailing(PopLeading([k \in 1..Len(split) |-> RStrip(split[k])]))

\* Lines 65-71: raw_lines as the main loop sees them.
RawLines(s) ==
    LET lf    == Replace(Replace(s, <<"CR", "LF">>, <<"LF">>), <<"CR">>, <<"LF">>)
        split == SplitLF(lf, <<>>)
    IN  PopTrailing(PopLeading([k \in 1..Len(split) |-> RStrip(split[k])]))

\* The number of digits at the positions after i.
RECURSIVE DigitRun(_, _)
DigitRun(t, i) == IF i < Len(t) /\ IsDigitSym(t[i + 1]) THEN 1 + DigitRun(t, i + 1) ELSE 0

\* re.match(r"^\(?\d+\)?\.?\s+", nxt) is not None
MatchesNumbered(nxt) ==
    LET a == IF nxt # <<>> /\ nxt[1] = "(" THEN 1 ELSE 0
        n == DigitRun(nxt, a)
        b == a + n
        c == IF b < Len(nxt) /\ nxt[b + 1] = ")" THEN b + 1 ELSE b
        e == IF c < Len(nxt) /\ nxt[c + 1] = "." THEN c + 1 ELSE c
    IN  n >= 1 /\ e < Len(nxt) /\ IsSpace(nxt[e + 1])

\* Lines 113-117
looks_like_heading(buf) == isupper(buf) \/ (buf # <<>> /\ buf[Len(buf)] = ":")

looks_like_list(nxt) ==
    \/ Strip(nxt) # <<>> /\ Strip(nxt)[1] \in {"-", "*"}
    \/ MatchesNumbered(nxt)

\* Lines 101-123: the soft-wrap merge loop from line i on; the buffer and the
\* index of the line it stopped at.
RECURSIVE SoftWrap(_, _, _)
SoftWrap(raw, i, buf) ==
    IF i > Len(raw) \/ raw[i] = <<>> THEN [buf |-> buf, i |-> i]
    ELSE IF buf # <<>> /\ buf[Len(buf)] = "-"
         THEN SoftWrap(raw, i + 1, SubSeq(buf, 1, Len(buf) - 1) \o LStrip(raw[i]))
    ELSE IF looks_like_heading(buf) \/ looks_like_list(raw[i])
         THEN [buf |-> buf, i |-> i]
    ELSE SoftWrap(raw, i + 1, buf \o <<" ">> \o LStrip(raw[i]))

RECURSIVE NextNonBlank(_, _)
NextNonBlank(raw, j) == IF j <= Len(raw) /\ raw[j] = <<>> THEN NextNonBlank(raw, j + 1) ELSE j

SentenceEnd == {".", ":", ";", "!", "?", ")"}

\* Lines 73-125: the main loop.  out is the list the code builds; starts
\* lists the indices of the raw lines that began an element of out.
RECURSIVE Paragraphs(_, _, _, _)
Paragraphs(raw, i, out, starts) ==
    IF i > Len(raw) THEN [out |-> out, starts |-> starts]
    ELSE IF raw[i] = <<>>
    THEN LET j == NextNonBlank(raw, i + 1)
         IN  IF /\ out # <<>>
                /\ j <= Len(raw)
                /\ out[Len(out)] # <<>>
                /\ out[Len(out)][Len(out[Len(out)])] \notin SentenceEnd
                /\ (IsLowerSym(LStrip(raw[j])[1]) \/ IsDigitSym(LStrip(raw[j])[1]))
             THEN Paragraphs(raw, j + 1,
                             [out EXCEPT ![Len(out)] = @ \o <<" ">> \o LStrip(raw[j])], starts)
             ELSE Paragraphs(raw, i + 1,
                             IF out = <<>> \/ out[Len(out)] # <<>> THEN Append(out, <<>>)
                             ELSE out,
                             starts)
    ELSE LET m == SoftWrap(raw, i + 1, raw[i])
         IN  Paragraphs(raw, m.i, Append(out, m.buf), Append(starts, i))

\* Lines 127-132
RECURSIVE Collapse(_, _)
Collapse(out, cleaned) ==
    IF out = <<>> THEN cleaned
    ELSE IF Head(out) = <<>> /\ cleaned # <<>> /\ cleaned[Len(cleaned)] = <<>>
         THEN Collapse(Tail(out), cleaned)
         ELSE Collapse(Tail(out), Append(cleaned, Head(out)))

\* Lines 136-138
LegacyFixes(normalized) ==
    Replace(Replace(Replace(normalized, <<"pi'essure">>, <<"pressure">>),
                    <<"pi-mojibake-essure">>, <<"pressure">>),
            <<"bleed", "-", "LF", "ing">>, <<"bleed", "ing">>)

normalize_source_text(s) ==
    LET out == Paragraphs(RawLines(s), 1, <<>>, <<>>).out
    IN  LegacyFixes(JoinLF(Collapse(out, <<>>)) \o <<"LF">>)

\* Lines of a raw text: blank, plain, heading, ending in a colon, hyphen or
\* full stop, list items, leading and trailing whitespace.
SourceLines ==
    { <<>>, <<"a">>, <<"A">>, <<"a", ":">>, <<"a", "-">>, <<"-", " ", "a">>,
      <<"1", ".", " ", "a">>, <<" ", "a", " ">>, <<"a", ".">> }

\* Texts with carriage returns, with the legacy words, with a lone hyphen.
SourceVectors ==
    { <<"a", " ", "CR", "LF", "CR", "CR", "A", "TAB", "CR">>,
      <<"a", "LF", "LF", "bleed", "-", "LF", "ing">>,
      <<"pi'essure", " ", "pi-mojibake-essure", "LF">>,
      <<"a", "LF", "-", "LF", "a">> }

RawTexts ==
    UNION { { JoinLF(ls) : ls \in [1..n -> SourceLines] } : n \in 0..MaxLines } \cup SourceVectors

NormalizeInit ==
    /\ Idle
    /\ judge = NoJudge
    /\ \E text \in RawTexts : call = [NoCall EXCEPT !.pcc = "called", !.arg = text]

\* normalize_source_text(raw_text)
Normalize ==
    /\ call.pcc = "called"
    /\ call' = [call EXCEPT !.pcc = "returned", !.out = normalize_source_text(call.arg),
                            !.starts = Paragraphs(RawLines(call.arg), 1, <<>>, <<>>).starts]

\* The result is normalized again (compile_generic_shard on a document the
\* extractor produced).
NormalizeAgain ==
    /\ call.pcc = "returned"
    /\ call' = [call EXCEPT !.pcc = "twice", !.again = normalize_source_text(call.out)]

NormalizeNext ==
    /\ UNCHANGED <<disk, faults, verifier, flipped, build, merkle, canon, judge>>
    /\ \/ Normalize
       \/ NormalizeAgain

NormalizeSpec == NormalizeInit /\ [][NormalizeNext]_vars

(***************************************************************************)
(* compute_merkle_root on two directories, byte by byte.  BLAKE3 is a      *)
(* collision-free function about which nothing else is known: a digest is *)
(* chosen when a byte string is hashed for the first time, never one that  *)
(* another byte string has, and kept in merkle.oracle.  Digests are two    *)
(* bytes long, each byte 0x00 or 0x78 ("x"); a preimage is the plain       *)
(* concatenation the code feeds to the hash.  A directory is the set of    *)
(* its Merkle-covered files, each a relative path and its bytes.           *)
(***************************************************************************)

MaxTreeFiles == 2

DigestBytes == {0, 120}

Digests == { <<a, b>> : a \in DigestBytes, b \in DigestBytes }

CoveredFile(rel, data) == [rel |-> rel, data |-> data]

\* Files x and y holding one byte, and files x holding two bytes.
TreeFiles ==
    { CoveredFile(NameBytes("x"), <<1>>), CoveredFile(NameBytes("a.txt"), <<1>>) }
        \cup { CoveredFile(NameBytes("x"), d) : d \in Digests }

Trees ==
    { t \in SUBSET TreeFiles :
        /\ Cardinality(t) <= MaxTreeFiles
        /\ \A f \in t : \A g \in t : f.rel = g.rel => f = g }

\* files.sort(key=lambda x: x[0].encode("utf-8"))
SortFiles(t) ==
    CHOOSE s \in [1..Cardinality(t) -> t] :
        \A i \in 1..Cardinality(t) : \A j \in 1..Cardinality(t) :
            i < j => LessBytes(s[i].rel, s[j].rel)

\* blake3(pre).digest() is h: the digest pre already has, or a digest that
\* no byte string hashed so far has.
Hashes(pre, h) ==
    IF \E e \in merkle.oracle : e[1] = pre
    THEN <<pre, h>> \in merkle.oracle
    ELSE h \in Digests /\ \A e \in merkle.oracle : e[2] # h

InjectInit ==
    /\ faults = 0
    /\ pc = "env"
    /\ trusted = "K1"
    /\ errors = <<>>
    /\ status = "none"
    /\ ran = {}
    /\ entity_ids = {}
    /\ claim_ids = {}
    /\ content_hashes = {}
    /\ content_map = <<>>
    /\ flipped = FALSE
    /\ disk = NoDir
    /\ build = NoBuild
    /\ canon = NoCanon
    /\ call = NoCall
    /\ judge = NoJudge
    /\ \E t1 \in Trees : \E t2 \in Trees :
          merkle = [NoMerkle EXCEPT !.impl = "axm_verify", !.at = t1, !.before = t2]

\* The walk and the sort of one call.
InjectWalk ==
    /\ merkle.pcm = "idle"
    /\ merkle' = [merkle EXCEPT !.pcm = IF merkle.at = {} THEN "fold" ELSE "walked",
                                !.files = SortFiles(merkle.at), !.leaves = <<>>]

\* One pass of the leaves loop: rel, 0x00 and the bytes go into one hash.
InjectLeaf ==
    /\ merkle.pcm = "walked"
    /\ LET f == Head(merkle.files)
           pre == f.rel \o <<0>> \o f.data
       IN  \E h \in Digests :
              /\ Hashes(pre, h)
              /\ merkle' = [merkle EXCEPT
                               !.oracle = @ \cup { <<pre, h>> },
                               !.leaves = Append(@, h),
                               !.files = Tail(@),
                               !.pcm = IF Tail(merkle.files) = <<>> THEN "fold" ELSE "walked"]

\* One pass of "for i in range(0, len(leaves), 2)": left + right hashed, the
\* last node paired with itself; after the last pair leaves = nxt.
InjectPair ==
    /\ merkle.pcm = "fold"
    /\ Len(merkle.leaves) > 1 \/ (merkle.leaves # <<>> /\ merkle.nxt # <<>>)
    /\ LET left  == merkle.leaves[1]
           right == IF Len(merkle.leaves) > 1 THEN merkle.leaves[2] ELSE left
           rest  == SubSeq(merkle.leaves, 3, Len(merkle.leaves))
       IN  \E h \in Digests :
              /\ Hashes(left \o right, h)
              /\ merkle' = [merkle EXCEPT
                               !.oracle = @ \cup { <<left \o right, h>> },
                               !.leaves = IF rest = <<>> THEN Append(merkle.nxt, h) ELSE rest,
                               !.nxt = IF rest = <<>> THEN <<>> ELSE Append(@, h)]

\* "if not leaves: return blake3(b'')" and "return leaves[0]".
InjectReturn ==
    /\ merkle.pcm = "fold"
    /\ Len(merkle.leaves) <= 1
    /\ merkle.nxt = <<>>
    /\ \E h \in Digests :
          /\ IF merkle.leaves = <<>> THEN Hashes(<<>>, h) ELSE h = merkle.leaves[1]
          /\ merkle' = [merkle EXCEPT
                           !.pcm = "returned", !.root = h, !.leaves = <<>>,
                           !.touches = @ + 1,
                           !.oracle = IF merkle.leaves = <<>> THEN @ \cup { <<<<>>, h>> } ELSE @]

\* The second call, on the other directory.
InjectOther ==
    /\ merkle.pcm = "returned"
    /\ merkle.touches = 1
    /\ merkle' = [merkle EXCEPT !.pcm = "idle", !.at = merkle.before, !.before = merkle.at,
                                !.prev = merkle.root]

InjectNext ==
    /\ UNCHANGED <<disk, faults, verifier, flipped, build, canon, call, judge>>
    /\ \/ InjectWalk
       \/ InjectLeaf
       \/ InjectPair
       \/ InjectReturn
       \/ InjectOther

InjectSpec == InjectInit /\ [][InjectNext]_vars

(***************************************************************************)
(* Properties                                                              *)
(***************************************************************************)

Done == pc = "done"

Reported == Done /\ status \in {"PASS", "FAIL"}

LaterThan(stage) == { Stages[i] : i \in (StageNo(stage) + 1)..Len(Stages) }

\* The shard is consistent with the key it embeds: manifest.sig verifies
\* under sig/publisher.pub and the Merkle root matches the manifest.
SelfConsistent(d) ==
    /\ IsFile(d, PubPath)
    /\ verify_manifest_signature(d, d.manifest, d.pub) = "true"
    /\ ~compute_merkle_root(d).raised
    /\ compute_merkle_root(d).root = d.manifest.root

\* C1: when the bytes of sig/publisher.pub differ from the trusted key, the
\* call never returns PASS; once layout and manifest are clean the report is
\* FAIL with exactly the crypto stage's E_SIG_INVALID and no later stage has
\* run, however self-consistent the shard is.
C1_WrongAnchorFails ==
    (Done /\ IsFile(disk, PubPath) /\ disk.pub # trusted)
        => /\ status # "PASS"
           /\ "crypto" \in ran
                => /\ status = "FAIL"
                   /\ errors = << _err("E_SIG_INVALID", "crypto") >>
                   /\ ran \cap LaterThan("crypto") = {}

C1_Witness ==
    /\ Done
    /\ "crypto" \in ran
    /\ disk.pub # trusted
    /\ SelfConsistent(disk)
    /\ status = "FAIL"

\* C2: after a PASS, changing the bytes of any file under content/, graph/
\* or evidence/ (manifest.json and sig/ untouched) makes the next call
\* return FAIL with E_MERKLE_MISMATCH, reported before any table is parsed.
C2_FlipIsMerkleMismatch ==
    (Done /\ flipped)
        => /\ status = "FAIL"
           /\ errors = << _err("E_MERKLE_MISMATCH", "merkle") >>
           /\ ran \cap LaterThan("merkle") = {}

RowsOf(t) == LET rows == disk.tables[t].rows IN { rows[i] : i \in 1..Len(rows) }

\* C3: a PASS report implies that every entity row carries the recomputed
\* entity id and every claim row a valid object type, a valid tier and the
\* recomputed claim id.
C3_PassImpliesIds ==
    (Done /\ status = "PASS")
        => /\ \A e \in RowsOf("entities") :
                e.entity_id = recompute_entity_id(e.namespace, e.label)
           /\ \A c \in RowsOf("claims") :
                /\ c.object_type \in VALID_OBJECT_TYPES
                /\ c.tier \in VALID_TIERS
                /\ c.claim_id = recompute_claim_id(c.subject, c.predicate, c.object, c.object_type)

\* A PASS on a shard whose first entity's label is not in canonical form.
C3_Witness ==
    /\ Done
    /\ status = "PASS"
    /\ disk.tables.entities.rows[1].label = <<"A", " ">>
    /\ Len(disk.tables.claims.rows) = 2

\* The SHA-256 digests of the regular files under content/.
ContentDigests ==
    { _sha256_stream(FileData(disk, p)) :
        p \in { q \in ContentPaths \cup ExtraPaths :
                  q[1] = "content" /\ Reachable(disk, q) /\ disk.tree[q] = "file" } }

EntityIdsOnDisk == { e.entity_id : e \in RowsOf("entities") }

ClaimIdsOnDisk == { c.claim_id : c \in RowsOf("claims") }

Orphans ==
    \/ \E c \in RowsOf("claims") :
          \/ c.subject \notin EntityIdsOnDisk
          \/ c.object_type = "entity" /\ c.object \notin EntityIdsOnDisk
    \/ \E r \in RowsOf("provenance") : r.claim_id \notin ClaimIdsOnDisk

UnknownSources ==
    \E r \in RowsOf("provenance") \cup
             { [source_hash |-> sp.source_hash] : sp \in RowsOf("spans") } :
        r.source_hash \notin ContentDigests

\* C4: a PASS report implies that every claim subject and entity-typed
\* object is an entity id of the shard, every provenance claim_id a claim id
\* of the shard, and every provenance and span source_hash the SHA-256 of a
\* regular file under content/; a report made after these checks ran carries
\* E_REF_ORPHAN for a dangling entity or claim reference and E_REF_SOURCE for
\* an unknown source hash.
C4_PassImpliesReferences ==
    /\ (Done /\ status = "PASS") => (~Orphans /\ ~UnknownSources)
    /\ (Reported /\ "spans" \in ran)
          => /\ Orphans => "E_REF_ORPHAN" \in Codes(errors)
             /\ UnknownSources => "E_REF_SOURCE" \in Codes(errors)

\* A PASS on a shard with an entity-valued claim and two provenance rows.
C4_Witness ==
    /\ Done
    /\ status = "PASS"
    /\ \E c \in RowsOf("claims") : c.object_type = "entity"
    /\ Len(disk.tables.provenance.rows) = 2
    /\ Len(disk.tables.spans.rows) = 2

\* The regular files under content/ whose SHA-256 is h.
FilesWithDigest(h) ==
    { q \in ContentPaths \cup ExtraPaths :
        /\ q[1] = "content" /\ Reachable(disk, q) /\ disk.tree[q] = "file"
        /\ _sha256_stream(FileData(disk, q)) = h }

RangeInFile(r) ==
    /\ FilesWithDigest(r.source_hash) # {}
    /\ \A q \in FilesWithDigest(r.source_hash) :
          0 <= r.byte_start /\ r.byte_start <= r.byte_end
              /\ r.byte_end <= Len(FileData(disk, q))

SpanExact(sp) ==
    /\ RangeInFile(sp)
    /\ \A q \in FilesWithDigest(sp.source_hash) :
          LET slice == SubSeq(FileData(disk, q), sp.byte_start + 1, sp.byte_end)
          IN  Utf8Valid(slice) /\ Utf8Decode(slice) = sp.text

RangeDeviation ==
    \/ \E r \in RowsOf("provenance") : ~RangeInFile(r)
    \/ \E sp \in RowsOf("spans") : ~SpanExact(sp)

\* C5: a PASS report implies 0 <= byte_start <= byte_end <= size of the
\* content file with that SHA-256 for every provenance and span row, and for
\* every span row that the addressed bytes are valid UTF-8 decoding to the
\* stored text; a report made after these checks ran carries E_REF_SOURCE
\* for any deviation.
C5_PassImpliesByteExactSpans ==
    /\ (Done /\ status = "PASS") => ~RangeDeviation
    /\ (Reported /\ "spans" \in ran /\ RangeDeviation) => "E_REF_SOURCE" \in Codes(errors)

\* A PASS on a shard whose first span addresses the two bytes of U+00E9.
C5_Witness ==
    /\ Done
    /\ status = "PASS"
    /\ \E sp \in RowsOf("spans") :
          sp.byte_start = 1 /\ sp.byte_end = 3 /\ sp.text = <<"U+00E9">>

EarlyStages == {"layout", "manifest", "crypto", "merkle", "schema"}

C7_NeverRaises == status # "RAISED"

\* The names found in a directory of the shard.
DirItems(d, dir) ==
    { Basename(p) : p \in { q \in AllPaths : q # Root /\ Parent(q) = dir /\ Exists(d, q) } }

SubdirsExact(d) ==
    /\ DirItems(d, <<"sig">>) = REQUIRED_SIG_FILES
    /\ DirItems(d, <<"graph">>) = REQUIRED_GRAPH_FILES
    /\ DirItems(d, <<"evidence">>) = REQUIRED_EVIDENCE_FILES

LayoutOver == pc \notin {"env", "layout"}

\* C8: a shard whose sig/, graph/ or evidence/ holds anything but exactly
\* the required files fails at the layout stage: once that stage has run the
\* call is over with a FAIL report and no other stage runs.
C8_SubdirContentsEnforced ==
    (LayoutOver /\ ~SubdirsExact(disk)) => (Done /\ status = "FAIL" /\ ran = {"layout"})

\* C9: no shard with a symbolic link anywhere in its tree gets a PASS.
C9_SymlinkNeverPasses ==
    (Done /\ \E p \in AllPaths : IsSymlink(disk, p)) => status # "PASS"

\* The non-directory entries (what os.walk lists as filenames) whose
\* basename begins with a dot.
Dotfiles(d) ==
    { p \in AllPaths \ {Root} :
        Reachable(d, p) /\ d.tree[p] \in {"file", "symfile"} /\ StartsWithDot(Basename(p)) }

\* C10: with exactly the five required root entries, a file at any depth
\* whose basename begins with '.' makes the call fail at the layout stage
\* with E_DOTFILE, and no later stage runs.
C10_DotfileFailsAtLayout ==
    (LayoutOver /\ IsDir(disk, Root) /\ RootItems(disk) = REQUIRED_ROOT_ITEMS
        /\ Dotfiles(disk) # {})
        => /\ Done
           /\ status = "FAIL"
           /\ errors = << _err("E_DOTFILE", "layout") >>
           /\ ran = {"layout"}

LowerHexDigits == {"0", "1", "2", "3", "4", "5", "6", "7", "8", "9", "a", "b", "c", "d", "e", "f"}

IsLowerHex64(t) == Len(t) = HEX_LEN /\ \A i \in 1..Len(t) : t[i] \in LowerHexDigits

\* integrity.merkle_root is a string of exactly 64 characters in 0-9a-f.
RootIsLowerHex64(m) == m.root[1] = "blake3" \/ IsLowerHex64(m.root[2])

\* C11: once the manifest stage has run on a manifest (a JSON object) whose
\* integrity.merkle_root is not 64 characters of 0-9a-f, the call is over
\* with E_MANIFEST_SCHEMA reported by the manifest stage.
C11_MalformedRootRejected ==
    ("manifest" \in ran /\ IsFile(disk, ManifestPath) /\ disk.manifest.form = "object"
        /\ ~RootIsLowerHex64(disk.manifest))
        => /\ Done
           /\ status = "FAIL"
           /\ errors = << _err("E_MANIFEST_SCHEMA", "manifest") >>
           /\ ran = {"layout", "manifest"}

\* The byte offsets at which the UTF-8 bytes of an evidence text occur.
Offsets(content_bytes, evidence) ==
    { n \in 0..Len(content_bytes) : OccursAt(content_bytes, Utf8Encode(evidence), n) }

\* The candidate gets as far as the evidence lookup of pass 2.
ReachesEvidence(c) ==
    /\ Strip(c.subject) # <<>>
    /\ Strip(c.predicate) # <<>>
    /\ c.evidence # <<>>
    /\ c.object_type \in VALID_OBJECT_TYPES

\* Pass 2 has gone past candidate k without an exception.
Survived(k) == build.pcb \in {"pass2", "verify", "done"} /\ build.i > k

\* C12: pass 2 never gets past a candidate whose evidence occurs at more
\* than one byte offset of the content (overlapping occurrences included):
\* the build aborts there; and every span row written has an evidence text
\* that occurs at exactly one offset.
C12_AmbiguousEvidenceAborts ==
    /\ \A k \in 1..Len(build.cands) :
          (ReachesEvidence(build.cands[k])
              /\ Cardinality(Offsets(build.source, build.cands[k].evidence)) > 1)
              => ~Survived(k)
    /\ \A n \in 1..Len(build.span_rows) :
          Cardinality(Offsets(build.source, build.span_rows[n].text)) = 1

\* The candidates without the k-th.
Without(cands, k) == SubSeq(cands, 1, k - 1) \o SubSeq(cands, k + 1, Len(cands))

\* Pass 2 over a whole list of candidates: the rows appended, or raised.
RECURSIVE Pass2Rows(_, _, _, _)
Pass2Rows(cands, entities, content_bytes, acc) ==
    IF cands = <<>> THEN acc
    ELSE LET r == Pass2Step(Head(cands), entities, GoldNamespace, content_bytes)
         IN  IF r.kind = "raise" THEN [acc EXCEPT !.raised = TRUE]
             ELSE Pass2Rows(Tail(cands), entities, content_bytes,
                            [acc EXCEPT !.claim = @ \o r.rows.claim, !.prov = @ \o r.rows.prov,
                                        !.span = @ \o r.rows.span])

\* What the two passes make of a list of candidates: an exception, or the
\* claim, provenance and span rows.
PassesOutcome(cands, content_bytes) ==
    LET p1 == Pass1(cands, GoldNamespace, <<>>)
    IN  IF p1.raised THEN [raised |-> TRUE, claim |-> <<>>, prov |-> <<>>, span |-> <<>>]
        ELSE LET p2 == Pass2Rows(cands, p1.entities, content_bytes,
                                 [raised |-> FALSE, claim |-> <<>>, prov |-> <<>>, span |-> <<>>])
             IN  IF p2.raised THEN [raised |-> TRUE, claim |-> <<>>, prov |-> <<>>, span |-> <<>>]
                 ELSE p2

\* The call aborted in one of the passes / went through both of them.
AbortedInPasses == build.pcb = "done" /\ build.result = "raised" /\ pc = "env"

PassesOver == build.pcb \in {"pass2", "verify", "done"} /\ build.i > Len(build.cands)

\* The k-th candidate gets to the evidence lookup and its evidence occurs
\* nowhere in the content.
NotFound(k) ==
    LET c == build.cands[k]
    IN  /\ ReachesEvidence(c)
        /\ recompute_entity_id(GoldNamespace, Strip(c.subject)) # Raise
        /\ c.object_type = "entity" => recompute_entity_id(GoldNamespace, Strip(c.object)) # Raise
        /\ Offsets(build.source, c.evidence) = {}

\* C13: a candidate whose evidence is not found is skipped: the build does
\* not abort at it, and the passes abort or produce claim, provenance and
\* span rows exactly as they do for the candidates without it.
C13_NotFoundIsSoftSkip ==
    \A k \in 1..Len(build.cands) :
        NotFound(k) =>
            LET other == PassesOutcome(Without(build.cands, k), build.source)
            IN  /\ ~(AbortedInPasses /\ build.i = k)
                /\ AbortedInPasses => other.raised
                /\ PassesOver => /\ ~other.raised
                                 /\ build.claim_rows = other.claim
                                 /\ build.prov_rows = other.prov
                                 /\ build.span_rows = other.span

\* A build that went through both passes, skipped a candidate whose
\* evidence was not found and kept the claim of another one.
C13_Witness ==
    /\ PassesOver
    /\ Len(build.cands) = 2
    /\ \E k \in 1..2 : NotFound(k)
    /\ Len(build.claim_rows) = 1

\* compile_generic_shard has returned or raised.
BuildOver == build.pcb = "done"

\* The bytes of content/source.txt a span row points at.
SpanBytes(d, row) ==
    SubSeq(d.content[<<"content", "source.txt">>], row.byte_start + 1, row.byte_end)

\* C14: the call returns True exactly when verify_shard ran on the output
\* directory with the publisher key K1 as trusted key and reported PASS;
\* and the directory of a build that returned True is signed by K1 over
\* its manifest, carries the Merkle root of its files, and every span row
\* points at bytes that decode to the evidence text of a candidate.
C14_SuccessIffSelfVerifyPass ==
    BuildOver =>
        /\ build.result = "True" <=> (pc = "done" /\ status = "PASS" /\ trusted = "K1")
        /\ build.result = "True" =>
              /\ disk.pub = "K1"
              /\ verify_manifest_signature(disk, disk.manifest, "K1") = "true"
              /\ compute_merkle_root(disk) = [raised |-> FALSE, root |-> disk.manifest.root]
              /\ disk.tables.spans.rows # <<>>
              /\ \A n \in 1..Len(disk.tables.spans.rows) :
                    LET row == disk.tables.spans.rows[n]
                    IN  /\ Utf8Valid(SpanBytes(disk, row))
                        /\ Utf8Decode(SpanBytes(disk, row)) = row.text
                        /\ \E k \in 1..Len(build.cands) : build.cands[k].evidence = row.text

\* A build that returned True with a span over a two-byte character.
C14_Witness ==
    /\ BuildOver
    /\ build.result = "True"
    /\ \E n \in 1..Len(disk.tables.spans.rows) :
          /\ disk.tables.spans.rows[n].text = <<"U+00E9">>
          /\ disk.tables.spans.rows[n].byte_end = disk.tables.spans.rows[n].byte_start + 2

\* Tables, manifest and signature have been written.
Written == build.pcb \in {"verify", "done"} /\ pc # "env"

\* The shard determined by the inputs alone: the rows of the two passes in
\* a directory holding nothing but content/source.txt, hashed in the order
\* of the relative paths.
ShardOf(source, cands) ==
    LET rows == PassesOutcome(cands, source)
        b    == [entities |-> Pass1(cands, GoldNamespace, <<>>).entities,
                 claim_rows |-> rows.claim, prov_rows |-> rows.prov, span_rows |-> rows.span]
        d    == WithTables(FreshDir(source), b)
        leaves == [i \in 1..Len(SortByRel(BuildMerkleFiles(d))) |->
                      Blake3(<<RelBytes(SortByRel(BuildMerkleFiles(d))[i]), <<0>>,
                               FileData(d, SortByRel(BuildMerkleFiles(d))[i])>>)]
    IN  WithManifest(d, MerkleFold(leaves))

\* C15: the shard written is a function of the source text and the
\* candidates (seed, publisher, namespace and created_at being fixed):
\* whatever the output directory held before and in whatever order the
\* files were enumerated for the Merkle root, content/source.txt, the four
\* tables, manifest.json and sig/ are the same.
C15_BuildDeterministic ==
    Written => disk = ShardOf(build.source, build.cands)

\* A shard written with two claims, its files enumerated in another order
\* than that of their relative paths.
C15_Witness ==
    /\ Written
    /\ Len(disk.tables.claims.rows) = 2
    /\ build.files # SortListing(build.files)
    /\ build.result = "True"

\* The files compile_generic_shard writes.
BuildOutputs ==
    { <<"content", "source.txt">>, ManifestPath, PubPath, SigPath } \cup TablePaths

\* C16: a call that did not return True (it returned False or raised)
\* leaves none of its outputs behind: no content/source.txt, table,
\* manifest or signature file is in the output directory.
C16_FailedBuildLeavesNothing ==
    (BuildOver /\ build.result # "True") =>
        \A p \in BuildOutputs : ~Exists(disk, p)

\* Candidate k is the one a claim row was made from.
MadeFrom(k, row) ==
    LET r == Pass2Step(build.cands[k], build.entities, GoldNamespace, build.source)
    IN  r.kind = "rows" /\ r.rows.claim[1].claim_id = row.claim_id

\* C17: every claim row emitted by pass 2 was made from a candidate whose
\* tier, coerced to an integer (0 when missing or not coercible), lies in
\* VALID_TIERS, and carries that tier; a candidate with a coerced tier
\* outside VALID_TIERS yields no claim row.
C17_OutOfRangeTierRejected ==
    \A n \in 1..Len(build.claim_rows) :
        \E k \in 1..Len(build.cands) :
            /\ MadeFrom(k, build.claim_rows[n])
            /\ CoerceTier(build.cands[k].tier) \in VALID_TIERS
            /\ build.claim_rows[n].tier = CoerceTier(build.cands[k].tier)

\* compute_merkle_root has returned.
Returned == merkle.pcm = "returned"

\* The files of the directory that count for the root: regular files that
\* are neither the manifest.json of the root nor inside the sig directory of
\* the root.
Included(d) ==
    { p \in AllPaths \ {Root} :
        /\ \A n \in 1..(Len(p) - 1) : d.tree[SubSeq(p, 1, n)] = "dir"
        /\ d.tree[p] = "file"
        /\ p # <<"manifest.json">>
        /\ p[1] # "sig" }

\* The included files in the byte order of their relative paths.
InOrder(S) ==
    CHOOSE s \in [1..Cardinality(S) -> S] :
        \A i \in 1..Cardinality(S) : \A j \in 1..Cardinality(S) :
            i < j => LessBytes(RelBytes(s[i]), RelBytes(s[j]))

Leaf(d, p) == Blake3(<<RelBytes(p), <<0>>, FileData(d, p)>>)

\* The reference fold.
RECURSIVE Fold(_)
Fold(level) ==
    IF Len(level) = 0 THEN Blake3(<<>>)
    ELSE IF Len(level) = 1 THEN level[1]
    ELSE Fold([i \in 1..((Len(level) + 1) \div 2) |->
                 Blake3(<<level[2 * i - 1],
                          level[IF 2 * i <= Len(level) THEN 2 * i ELSE 2 * i - 1]>>)])

ReferenceRoot(d) ==
    LET files == InOrder(Included(d))
    IN  Fold([i \in 1..Len(files) |-> Leaf(d, files[i])])

\* C18: the root compute_merkle_root returns is the reference fold over the
\* included files in the byte order of their relative paths, whatever the
\* order of enumeration: BLAKE3 of nothing for no file, the leaf for one
\* file, and BLAKE3(leaf(a.txt) || leaf(b.txt)) for the two files of the
\* vector.
C18_MerkleRootIsReferenceFold ==
    Returned =>
        /\ merkle.root = ReferenceRoot(merkle.at)
        /\ Included(merkle.at) = {} => merkle.root = Blake3(<<>>)
        /\ \A p \in AllPaths : Included(merkle.at) = {p} => merkle.root = Leaf(merkle.at, p)
        /\ Included(merkle.at) = { <<"a.txt">>, <<"b.txt">> } =>
              merkle.root = Blake3(<<Leaf(merkle.at, <<"a.txt">>), Leaf(merkle.at, <<"b.txt">>)>>)

\* A root returned for three files.
C18_Witness ==
    /\ Returned
    /\ Cardinality(Included(merkle.at)) = 3
    /\ <<"a.txt">> \in Included(merkle.at)

\* The (relative path, bytes) pairs of the included files.
IncludedPairs(d) == { <<p, FileData(d, p)>> : p \in Included(d) }

\* Two calls have returned.
ReturnedTwice == Returned /\ merkle.before # <<>>

\* C19: of two calls, with files created, deleted or rewritten in between,
\* the second returns the root of the first exactly when the (relative
\* path, bytes) pairs of the included files are the same: changes to
\* manifest.json and to files under sig/ do not count, changes to
\* graph/manifest.json and content/sig/x do.
C19_RootIgnoresManifestAndSig ==
    ReturnedTwice =>
        (merkle.root = merkle.prev <=> IncludedPairs(merkle.at) = IncludedPairs(merkle.before))

\* Two calls with a change to manifest.json or sig/manifest.sig in between,
\* graph/manifest.json being hashed both times.
C19_Witness ==
    /\ ReturnedTwice
    /\ merkle.at # merkle.before
    /\ merkle.root = merkle.prev
    /\ <<"graph", "manifest.json">> \in Included(merkle.at)

\* Python's == on decoded JSON values: dicts are equal when they hold the
\* same keys with equal values, in whatever order.
RECURSIVE JsonEq(_, _)
JsonEq(x, y) ==
    /\ x[1] = y[1]
    /\ CASE x[1] = "list" ->
              /\ Len(x[2]) = Len(y[2])
              /\ \A i \in 1..Len(x[2]) : JsonEq(x[2][i], y[2][i])
         [] x[1] = "obj" ->
              /\ { x[2][i][1] : i \in 1..Len(x[2]) } = { y[2][j][1] : j \in 1..Len(y[2]) }
              /\ Len(x[2]) = Len(y[2])
              /\ \A i \in 1..Len(x[2]) : \A j \in 1..Len(y[2]) :
                    x[2][i][1] = y[2][j][1] => JsonEq(x[2][i][2], y[2][j][2])
         [] OTHER -> x[2] = y[2]

\* In a decoded value, whose dicts keep the order of the text: the keys of
\* every mapping, at every level, are in strictly ascending order.
RECURSIVE KeysSorted(_)
KeysSorted(v) ==
    CASE v[1] = "list" -> \A i \in 1..Len(v[2]) : KeysSorted(v[2][i])
      [] v[1] = "obj" ->
           /\ \A i \in 1..(Len(v[2]) - 1) :
                 LessBytes(CodePoints(v[2][i][1]), CodePoints(v[2][i + 1][1]))
           /\ \A i \in 1..Len(v[2]) : KeysSorted(v[2][i][2])
      [] OTHER -> TRUE

\* No space or line feed outside the string literals of a JSON text.
RECURSIVE NoWhitespaceBetweenTokens(_, _)
NoWhitespaceBetweenTokens(bytes, in_string) ==
    IF bytes = <<>> THEN TRUE
    ELSE IF in_string
         THEN IF Head(bytes) = "\\" THEN NoWhitespaceBetweenTokens(SubSeq(bytes, 3, Len(bytes)), TRUE)
              ELSE NoWhitespaceBetweenTokens(Tail(bytes), Head(bytes) # "\"")
    ELSE /\ Head(bytes) \notin {" ", "LF"}
         /\ NoWhitespaceBetweenTokens(Tail(bytes), Head(bytes) = "\"")

\* C20: the canonical JSON bytes of a manifest mapping decode to a value
\* equal to the mapping, encoding that value again gives the same bytes,
\* and the bytes have the keys of every mapping in ascending order and no
\* whitespace between tokens, whatever the insertion order of the keys.
C20_CanonicalJsonRoundTrip ==
    /\ canon.pcj \in {"encoded", "decoded", "reencoded"} =>
          NoWhitespaceBetweenTokens(canon.bytes, FALSE)
    /\ canon.pcj \in {"decoded", "reencoded"} =>
          /\ canon.back.ok
          /\ JsonEq(canon.back.val, canon.obj)
          /\ KeysSorted(canon.back.val)
    /\ canon.pcj = "reencoded" => canon.again = canon.bytes

\* Encoded, decoded and encoded again: a mapping whose keys were inserted
\* in descending order, one value being a mapping with keys in descending
\* order too.
C20_Witness ==
    /\ canon.pcj = "reencoded"
    /\ Len(canon.obj[2]) = 2
    /\ canon.obj[2][1][1] = <<"b">>
    /\ canon.obj[2][2][1] = <<"a">>
    /\ canon.obj[2][2][2][1] = "obj"
    /\ Len(canon.obj[2][2][2][2]) = 2

\* C21: canonicalize raises on an input holding NUL; on any other input it
\* returns a text without control characters whose only whitespace is single
\* ASCII spaces between words, none at either end; "  Hello   World  "
\* gives "hello world".
C21_CanonicalizeShape ==
    call.pcc = "returned" =>
        IF HasNul(call.arg) THEN call.out = Raise
        ELSE /\ call.out # Raise
             /\ \A i \in 1..Len(call.out) :
                   /\ call.out[i] \notin {"TAB", "SOH", "NUL"}
                   /\ call.out[i] = " " =>
                         /\ i > 1
                         /\ i < Len(call.out)
                         /\ call.out[i + 1] # " "
             /\ call.arg = HelloWorld => call.out = <<"a", "a", " ", "a", "b">>

\* A text with a capital, a control character inside a word and a tab
\* between two words.
C21_Witness ==
    /\ call.pcc = "returned"
    /\ call.arg = <<"A", "SOH", "TAB", "a">>
    /\ call.out = <<"a", " ", "a">>

\* The error the schema gate owes a table: that of the first violated
\* check, none when every check passes.
FirstViolation(d, t) ==
    LET bad == d.tables[t].defects
    IN  IF d.tree[TablePath(t)] = "absent" THEN <<"E_SCHEMA_MISSING">>
        ELSE IF bad \cap {"size", "rows", "unreadable"} # {} THEN <<"E_SCHEMA_READ">>
        ELSE IF "schema" \in bad THEN <<"E_SCHEMA_TYPE">>
        ELSE IF "nulls" \in bad THEN <<"E_SCHEMA_NULL">>
        ELSE <<>>

SchemaOver == "schema" \in ran /\ pc # "schema"

\* C22: once the schema stage has run, the report holds for each table, in
\* the order entities, claims, provenance, spans, exactly the error of its
\* first violated check (missing, then size / rows / readable, then
\* columns, then nulls) and none for a table that passes; if any table
\* failed the report is final and no later stage has run.
C22_SchemaGateFirstViolation ==
    LET owed == FirstViolation(disk, "entities") \o FirstViolation(disk, "claims")
                   \o FirstViolation(disk, "provenance") \o FirstViolation(disk, "spans")
    IN  /\ (SchemaOver /\ owed # <<>>) =>
               /\ pc = "done"
               /\ status = "FAIL"
               /\ [i \in 1..Len(errors) |-> errors[i].code] = owed
               /\ ran \cap {"identity", "refs", "spans"} = {}
        /\ (SchemaOver /\ owed = <<>>) =>
               \A i \in 1..Len(errors) : errors[i].stage # "schema"

\* Two tables failed: one with unreadable bytes and a wrong schema, one
\* with a wrong schema and nulls.
C22_Witness ==
    /\ SchemaOver
    /\ disk.tables.entities.defects = {"unreadable", "schema"}
    /\ disk.tables.spans.defects = {"schema", "nulls"}
    /\ Len(errors) = 2

Verdict(k) ==
    verify_latent(judge.latents, judge.jsonl[k].offset, judge.jsonl[k].length,
                  judge.jsonl[k].frame_id).stat

\* The first line whose latent reference does not verify, 0 if there is none.
FirstUnverified ==
    IF \A k \in 1..Len(judge.jsonl) : Verdict(k) = "VERIFIED" THEN 0
    ELSE CHOOSE k \in 1..Len(judge.jsonl) :
            /\ Verdict(k) # "VERIFIED"
            /\ \A j \in 1..(k - 1) : Verdict(j) = "VERIFIED"

LatentRows(rows) == SelectSeq(rows, LAMBDA r : r.stream = "latents")

\* C24: the judge checks the events in file order; the first event whose
\* latent reference is not VERIFIED ends the run with a non-zero exit and no
\* streams.parquet, however many earlier events verified; streams.parquet is
\* written only after every event's latent record verified.
C24_FirstUnverifiedEventFailsRun ==
    /\ judge.pcj = "loop" =>
          /\ \A k \in 1..(judge.i - 1) : Verdict(k) = "VERIFIED"
          /\ [k \in 1..Len(LatentRows(judge.rows)) |-> LatentRows(judge.rows)[k].frame_id]
                = [k \in 1..(judge.i - 1) |-> judge.jsonl[k].frame_id]
          /\ ~judge.streams.exists
    /\ (judge.pcj = "exit" /\ judge.latents.exists) =>
          IF FirstUnverified # 0
          THEN /\ judge.exit = "1"
               /\ ~judge.streams.exists
               /\ judge.i = FirstUnverified
          ELSE /\ judge.exit = "0"
               /\ judge.streams.exists
    /\ judge.streams.exists =>
          /\ judge.latents.exists
          /\ FirstUnverified = 0
          /\ Len(LatentRows(judge.streams.rows)) = Len(judge.jsonl)

C24_Witness ==
    /\ judge.pcj = "exit"
    /\ Len(judge.jsonl) = 3
    /\ FirstUnverified = 3
    /\ Verdict(3) = "OFFSET_DRIFT"
    /\ Len(judge.rows) >= 2
    /\ judge.exit = "1"
    /\ ~judge.streams.exists
\* Some entry of the directory is a symbolic link.
HasSymlink(d) == \E p \in AllPaths : d.tree[p] \in {"symfile", "symdir"}

BothReturned == merkle.pcm = "returned" /\ merkle.impl = "axm_build"

\* C25: on a directory without symbolic links (all files far below the size
\* and count limits) the verifier's and the builder's compute_merkle_root
\* return the same root; on any directory, whenever the verifier returns a
\* root the builder returns the same one, and the verifier raises only where
\* a symbolic link to a file is met.
C25_BuilderAndVerifierRootsAgree ==
    BothReturned =>
        /\ ~HasSymlink(disk) => (~merkle.prev.raised /\ merkle.prev.root = merkle.root)
        /\ ~merkle.prev.raised => merkle.prev.root = merkle.root
        /\ merkle.prev.raised => \E p \in AllPaths : IsSymlink(disk, p) /\ disk.tree[p] = "symfile"

\* Both routines return the root of three files in a directory without
\* symbolic links, the builder from an unsorted enumeration.
C25_Witness ==
    /\ BothReturned
    /\ ~HasSymlink(disk)
    /\ Len(merkle.files) = 3
    /\ merkle.files # SortListing(merkle.files)
    /\ merkle.prev.root = merkle.root
Normalized == call.pcc \in {"returned", "twice"}

\* A boundary between the adjacent input lines A and B.
Boundary(A, B) ==
    \/ isupper(A)
    \/ A[Len(A)] = ":"
    \/ Strip(B)[1] \in {"-", "*"}
    \/ MatchesNumbered(B)

\* C26: a non-empty line B directly after a non-empty line A is not merged
\* into A's paragraph when A is all-uppercase, A ends with ':' or B is a list
\* item: B then begins a paragraph of its own.
C26_BoundaryStopsMerge ==
    Normalized =>
        LET raw == RawLines(call.arg)
        IN  \A k \in 1..(Len(raw) - 1) :
               (raw[k] # <<>> /\ raw[k + 1] # <<>> /\ Boundary(raw[k], raw[k + 1]))
                   => \E n \in 1..Len(call.starts) : call.starts[n] = k + 1

\* The lines of a normalized text, its final line feed taken off.
OutLines(t) == SplitLF(SubSeq(t, 1, Len(t) - 1), <<>>)

\* C27: the output holds no carriage return, no line ending in whitespace,
\* no two consecutive blank lines, and ends with exactly one line feed; an
\* empty or all-blank input gives the single line feed.
C27_OutputShape ==
    Normalized =>
        /\ \A k \in 1..Len(call.out) : call.out[k] # "CR"
        /\ call.out # <<>> /\ call.out[Len(call.out)] = "LF"
        /\ Len(call.out) > 1 => call.out[Len(call.out) - 1] # "LF"
        /\ \A k \in 1..Len(OutLines(call.out)) :
              LET ln == OutLines(call.out)[k]
              IN  /\ ln # <<>> => ~IsSpace(ln[Len(ln)])
                  /\ (k > 1 /\ ln = <<>>) => OutLines(call.out)[k - 1] # <<>>
        /\ RawLines(call.arg) = <<>> => call.out = <<"LF">>

\* Carriage returns, trailing whitespace and a run of blank lines go in.
C27_Witness ==
    /\ Normalized
    /\ \E k \in 1..Len(call.arg) : call.arg[k] = "CR"
    /\ \E k \in 1..(Len(call.arg) - 1) : call.arg[k] = " " /\ call.arg[k + 1] = "CR"
    /\ call.out = <<"a", "LF", "LF", "A", "LF">>

\* C28: normalizing a normalized text gives the same text.
C28_NormalizeIdempotent ==
    call.pcc = "twice" => call.again = call.out
\* No two rows of the table have the same value in the key column.
KeyUnique(tab, key) ==
    \A i \in 1..Len(tab.rows) : \A j \in 1..Len(tab.rows) :
        i # j => tab.rows[i][key] # tab.rows[j][key]

\* C29: in the tables compile_generic_shard has written no two entity rows
\* share an entity_id, no two claim rows a claim_id, no two provenance rows a
\* provenance_id and no two span rows a span_id.
C29_PrimaryKeysUnique ==
    Written =>
        /\ KeyUnique(disk.tables.entities, "entity_id")
        /\ KeyUnique(disk.tables.claims, "claim_id")
        /\ KeyUnique(disk.tables.provenance, "provenance_id")
        /\ KeyUnique(disk.tables.spans, "span_id")

\* Both calls have returned.
BothRoots == merkle.pcm = "returned" /\ merkle.touches = 2

\* C30: two directories whose sets of (relative path, bytes) of covered
\* files differ never have the same Merkle root, BLAKE3 being collision-free.
C30_MerkleRootInjective ==
    BothRoots => (merkle.at # merkle.before => merkle.root # merkle.prev)
=============================================================================
